---------------------------- MODULE Spec2Model ----------------------------
(***************************************************************************)
(* Authorization pipeline of secure-sqlite: the in-memory authorization    *)
(* store (pkg/auth/memory.go), the RBAC decision engine (pkg/rbac/rbac.go) *)
(* and the SecureSQLite entry points (pkg/secure_sqlite/query.go).         *)
(*                                                                         *)
(* Strings that the code takes apart (row conditions) are sequences of     *)
(* tokens, so that prefixing with the revocation marker and testing for    *)
(* it are real operations.  SQL text is a record holding its leading       *)
(* keyword and the tree the external parser yields for it.                 *)
(***************************************************************************)
EXTENDS Naturals, Sequences, FiniteSets

VARIABLES
    users,        \* MemoryProvider.users: username -> token
    permissions,  \* MemoryProvider.permissions: username -> list of records
    roles,        \* MemoryProvider.roles: role id -> role name
    roleNames,    \* MemoryProvider.roleNames: role name -> role id
    userRoles,    \* MemoryProvider.userRoles: username -> list of role names
    nextRoleID,   \* MemoryProvider.nextRoleID
    last,         \* what the most recent call on the API returned
    txOpen,       \* a transaction handle returned by Begin is open
    calls,        \* grants in progress: each caller's position and locals
    parsed        \* the parsed statement a client of the rewriter holds

\* the role maps of the store
roleVars == <<roles, roleNames, userRoles, nextRoleID>>

vars == <<users, permissions, roleVars, last, txOpen, calls, parsed>>

---------------------------------------------------------------------------
(* Bounds                                                                  *)

\* longest permission list a grant may still extend
MaxPerms == 3

\* number of roles CreateRole may create
MaxRoles == 2

\* longest permission list of a user of the rewriter
MaxRules == 2

\* longest filter, in tokens, a client still hands to the rewriter
MaxFilter == 7

---------------------------------------------------------------------------
(* pkg/permissions/types.go                                                *)

TablePermission == "table"
ColumnPermission == "column"
RowPermission == "row"

Select == "select"
Insert == "insert"
Update == "update"
Delete == "delete"
Create == "create"
Drop == "drop"
Alter == "alter"

RevokedPermissionPrefix == <<"REVOKED:">>
WildcardPermission == "*"

\* the Permission struct; fields a grant does not set keep Go's zero value
Permission(type, table, column, condition) ==
    [Type |-> type, Table |-> table, Column |-> column,
     Condition |-> condition, Action |-> Select]

\* strings.HasPrefix on token sequences
HasPrefix(s, prefix) ==
    /\ Len(s) >= Len(prefix)
    /\ SubSeq(s, 1, Len(prefix)) = prefix

---------------------------------------------------------------------------
(* Input domains                                                           *)

SessionUser == "alice"
UnknownUser == "bob"
Usernames == {SessionUser, UnknownUser}

TableNames == {"orders", "users"}
GrantTargets == {"orders", WildcardPermission}
RowTargets == {"orders"}
ColumnNames == {"id"}

NoCondition == <<>>
Cond1 == <<"user_id", "=", "1">>
Cond2 == <<"user_id", "=", "42">>
Conditions == {NoCondition, Cond1, Cond2}

\* the scopes of a record
Scopes == {TablePermission, ColumnPermission, RowPermission}

---------------------------------------------------------------------------
(* pkg/auth/memory.go                                                      *)

\* Authenticate: the stored token of the name (zero value "" for a missing
\* key) equals the presented token
Authenticate(username, token) ==
    (IF username \in DOMAIN users THEN users[username] ELSE "") = token

\* GetUserPermissions without the test of the name: the stored list, empty
\* when the map has no entry
GetUserPermissionsOfAnyName(username) ==
    [err |-> FALSE,
     val |-> IF username \in DOMAIN permissions THEN permissions[username]
             ELSE <<>>]

\* GetUserPermissions: error for a name that was never added, otherwise the
\* stored list (empty when the map has no entry)
GetUserPermissions(username) ==
    IF username \in DOMAIN users
    THEN [err |-> FALSE, val |-> permissions[username]]
    ELSE [err |-> TRUE, val |-> <<>>]

---------------------------------------------------------------------------
(* pkg/rbac/rbac.go : decisions                                            *)

\* the match every scan of the list uses: scope equal, table equal or wildcard
Matches(perm, tableName, permission) ==
    /\ perm.Type = permission
    /\ (perm.Table = tableName \/ perm.Table = WildcardPermission)

\* the sub-list of the records that match, in list order
Matching(perms, tableName, permission) ==
    SelectSeq(perms, LAMBDA perm : Matches(perm, tableName, permission))

Revoked(perm) == HasPrefix(perm.Condition, RevokedPermissionPrefix)

HasTablePermission(username, tableName, permission) ==
    LET r == GetUserPermissions(username)
    IN  IF username = "" \/ r.err
        THEN [err |-> TRUE, val |-> FALSE]
        ELSE [err |-> FALSE,
              val |-> \E i \in 1..Len(r.val) :
                          Matches(r.val[i], tableName, permission)]

\* HasColumnPermission with the column of the record compared as well
HasColumnPermissionByColumn(username, tableName, columnName, permission) ==
    LET r == GetUserPermissions(username)
    IN  IF username = "" \/ r.err
        THEN [err |-> TRUE, val |-> FALSE]
        ELSE [err |-> FALSE,
              val |-> \E i \in 1..Len(r.val) :
                          /\ Matches(r.val[i], tableName, permission)
                          /\ r.val[i].Column = columnName]

\* columnName takes no part in the scan
HasColumnPermission(username, tableName, columnName, permission) ==
    LET r == GetUserPermissions(username)
    IN  IF username = "" \/ r.err
        THEN [err |-> TRUE, val |-> FALSE]
        ELSE [err |-> FALSE,
              val |-> \E i \in 1..Len(r.val) :
                          Matches(r.val[i], tableName, permission)]

\* GetRowPermissions without the default rule
GetRowPermissionsNoDefault(username, tableName, permission) ==
    LET r == GetUserPermissions(username)
        m == Matching(r.val, tableName, permission)
    IN  IF username = "" \/ r.err
        THEN [err |-> TRUE, val |-> <<>>]
        ELSE [err |-> FALSE,
              val |-> [i \in 1..Len(m) |-> [Granted |-> ~Revoked(m[i])]]]

\* one rule per matching record, or the single default rule
GetRowPermissions(username, tableName, permission) ==
    LET r == GetUserPermissions(username)
        m == Matching(r.val, tableName, permission)
        rules == [i \in 1..Len(m) |-> [Granted |-> ~Revoked(m[i])]]
    IN  IF username = "" \/ r.err
        THEN [err |-> TRUE, val |-> <<>>]
        ELSE [err |-> FALSE,
              val |-> IF Len(rules) = 0 THEN <<[Granted |-> FALSE]>>
                                        ELSE rules]

\* the first row record for the table decides; a tombstone yields ""
GetRowCondition(username, tableName) ==
    LET r == GetUserPermissions(username)
        m == Matching(r.val, tableName, RowPermission)
    IN  IF r.err THEN [err |-> TRUE, val |-> NoCondition]
        ELSE IF Len(m) = 0 THEN [err |-> FALSE, val |-> NoCondition]
        ELSE IF Revoked(m[1]) THEN [err |-> FALSE, val |-> NoCondition]
        ELSE [err |-> FALSE, val |-> m[1].Condition]

\* the permission argument is not consulted
CheckQueryPermissions(username, tableName, permission) ==
    LET r == GetUserPermissions(username)
        hasTablePermission ==
            \E i \in 1..Len(r.val) :
                Matches(r.val[i], tableName, TablePermission)
        hasRowPermission ==
            \E i \in 1..Len(r.val) :
                Matches(r.val[i], tableName, RowPermission)
        rowPerms == GetRowPermissions(username, tableName, RowPermission)
    IN  IF r.err THEN [err |-> TRUE, val |-> FALSE]
        ELSE IF ~hasTablePermission THEN [err |-> FALSE, val |-> FALSE]
        ELSE IF ~hasRowPermission THEN [err |-> FALSE, val |-> TRUE]
        ELSE IF rowPerms.err THEN [err |-> TRUE, val |-> FALSE]
        ELSE IF Len(rowPerms.val) = 0 \/ ~rowPerms.val[1].Granted
             THEN [err |-> FALSE, val |-> FALSE]
        ELSE [err |-> FALSE, val |-> TRUE]

---------------------------------------------------------------------------
(* Results of a call on the API                                            *)

NoWhere == [node |-> "none"]
NoStmt == [verb |-> "", kind |-> "none", from |-> <<>>, sel |-> <<>>,
           cols |-> <<>>, table |-> "", where |-> NoWhere]

\* what the last call returned: its name, the statement it was given, the
\* error code ("OK" for nil) and the statement text handed to the engine
Result(api, query, code, engine) ==
    [api |-> api, query |-> query, code |-> code, engine |-> engine]

NoCall == Result("none", NoStmt, "OK", NoStmt)

\* the result of a grant or revoke: a store error or nil
StoreResult(api, r) == Result(api, NoStmt, IF r.err THEN "STORE_ERROR" ELSE "OK", NoStmt)

---------------------------------------------------------------------------
(* pkg/rbac/rbac.go : grants and revokes, each a read of the list followed *)
(* by UpdateUserPermissions of the whole list                              *)

\* UpdateUserPermissions: replace the list of the name
UpdateUserPermissions(username, perms) ==
    permissions' = [permissions EXCEPT ![username] = perms]

\* the list without the records for which drop holds
\* (the filter loop of rbac.go:448-453)
Without(perms, drop(_)) == SelectSeq(perms, LAMBDA perm : ~drop(perm))

\* index of the first record for which hit holds, 0 when there is none
\* (the loop with break of rbac.go:528-533)
FirstIndex(perms, hit(_)) ==
    IF \E i \in 1..Len(perms) : hit(perms[i])
    THEN CHOOSE i \in 1..Len(perms) :
             /\ hit(perms[i])
             /\ \A j \in 1..(i - 1) : ~hit(perms[j])
    ELSE 0

GrantTablePermission(username, tableName, permission) ==
    LET userPerms == GetUserPermissions(username)
        newPerm == Permission(permission, tableName, "", NoCondition)
    IN  /\ ~userPerms.err => Len(userPerms.val) < MaxPerms
        /\ IF userPerms.err THEN UNCHANGED permissions
           ELSE UpdateUserPermissions(username, Append(userPerms.val, newPerm))
        /\ last' = StoreResult("GrantTablePermission", userPerms)
        /\ UNCHANGED <<users, txOpen, roleVars, calls, parsed>>

RevokeTablePermission(username, tableName, permission) ==
    LET userPerms == GetUserPermissions(username)
        newPerms == Without(userPerms.val,
                            LAMBDA perm : /\ perm.Type = permission
                                          /\ perm.Table = tableName)
    IN  /\ IF userPerms.err THEN UNCHANGED permissions
           ELSE UpdateUserPermissions(username, newPerms)
        /\ last' = StoreResult("RevokeTablePermission", userPerms)
        /\ UNCHANGED <<users, txOpen, roleVars, calls, parsed>>

GrantColumnPermission(username, tableName, columnName, permission) ==
    LET userPerms == GetUserPermissions(username)
        newPerm == Permission(permission, tableName, columnName, NoCondition)
    IN  /\ ~userPerms.err => Len(userPerms.val) < MaxPerms
        /\ IF userPerms.err THEN UNCHANGED permissions
           ELSE UpdateUserPermissions(username, Append(userPerms.val, newPerm))
        /\ last' = StoreResult("GrantColumnPermission", userPerms)
        /\ UNCHANGED <<users, txOpen, roleVars, calls, parsed>>

RevokeColumnPermission(username, tableName, columnName, permission) ==
    LET userPerms == GetUserPermissions(username)
        newPerms == Without(userPerms.val,
                            LAMBDA perm : /\ perm.Type = permission
                                          /\ perm.Table = tableName
                                          /\ perm.Column = columnName)
    IN  /\ IF userPerms.err THEN UNCHANGED permissions
           ELSE UpdateUserPermissions(username, newPerms)
        /\ last' = StoreResult("RevokeColumnPermission", userPerms)
        /\ UNCHANGED <<users, txOpen, roleVars, calls, parsed>>

\* GrantRowPermission that leaves the list as it is when it already holds
\* the record
GrantRowPermissionMerging(username, tableName, condition, permission) ==
    LET userPerms == GetUserPermissions(username)
        newPerm == Permission(permission, tableName, "", condition)
        held == \E i \in 1..Len(userPerms.val) : userPerms.val[i] = newPerm
    IN  /\ ~userPerms.err => Len(userPerms.val) < MaxPerms
        /\ IF userPerms.err \/ held THEN UNCHANGED permissions
           ELSE UpdateUserPermissions(username, Append(userPerms.val, newPerm))
        /\ last' = StoreResult("GrantRowPermission", userPerms)
        /\ UNCHANGED <<users, txOpen, roleVars, calls, parsed>>

GrantRowPermission(username, tableName, condition, permission) ==
    LET userPerms == GetUserPermissions(username)
        newPerm == Permission(permission, tableName, "", condition)
    IN  /\ ~userPerms.err => Len(userPerms.val) < MaxPerms
        /\ IF userPerms.err THEN UNCHANGED permissions
           ELSE UpdateUserPermissions(username, Append(userPerms.val, newPerm))
        /\ last' = StoreResult("GrantRowPermission", userPerms)
        /\ UNCHANGED <<users, txOpen, roleVars, calls, parsed>>

\* the arguments of a call that names a condition
RowCall(username, tableName, condition, permission) ==
    [username |-> username, table |-> tableName, condition |-> condition,
     permission |-> permission]

\* RevokeRowPermission marking every record equal in scope, table and
\* condition
RevokeRowPermissionAll(username, tableName, condition, permission) ==
    LET userPerms == GetUserPermissions(username)
        marked == [i \in 1..Len(userPerms.val) |->
                      IF /\ userPerms.val[i].Type = permission
                         /\ userPerms.val[i].Table = tableName
                         /\ userPerms.val[i].Condition = condition
                      THEN [userPerms.val[i] EXCEPT !.Condition =
                                RevokedPermissionPrefix \o condition]
                      ELSE userPerms.val[i]]
    IN  /\ IF userPerms.err THEN UNCHANGED permissions
           ELSE UpdateUserPermissions(username, marked)
        /\ last' = [StoreResult("RevokeRowPermission", userPerms) EXCEPT
                        !.query = RowCall(username, tableName, condition,
                                          permission)]
        /\ UNCHANGED <<users, txOpen, roleVars, calls, parsed>>

\* the first record equal in scope, table and condition is marked in place;
\* without such a record nothing is written
RevokeRowPermission(username, tableName, condition, permission) ==
    LET userPerms == GetUserPermissions(username)
        i == FirstIndex(userPerms.val,
                        LAMBDA perm : /\ perm.Type = permission
                                      /\ perm.Table = tableName
                                      /\ perm.Condition = condition)
    IN  /\ IF userPerms.err \/ i = 0 THEN UNCHANGED permissions
           ELSE UpdateUserPermissions(username,
                    [userPerms.val EXCEPT ![i].Condition =
                         RevokedPermissionPrefix \o condition])
        /\ last' = [StoreResult("RevokeRowPermission", userPerms) EXCEPT
                        !.query = RowCall(username, tableName, condition,
                                          permission)]
        /\ UNCHANGED <<users, txOpen, roleVars, calls, parsed>>

---------------------------------------------------------------------------
(* SQL text and the tree the parser (xwb1989/sqlparser) yields for it      *)

\* FROM entries: a table, possibly under an alias, or a join of two
AliasedTableExpr(name, as) == [node |-> "aliased", name |-> name, as |-> as]
JoinTableExpr(left, right) == [node |-> "join", left |-> left, right |-> right]

\* projections: "*" or a column
StarExpr == [node |-> "star", name |-> "*"]
ColName(name) == [node |-> "col", name |-> name]

\* filters: a predicate as written, or a conjunction
Pred(condition) == [node |-> "pred", condition |-> condition]
AndExpr(left, right) == [node |-> "and", left |-> left, right |-> right]

Stmt(verb, kind, from, sel, cols, table, where) ==
    [verb |-> verb, kind |-> kind, from |-> from, sel |-> sel,
     cols |-> cols, table |-> table, where |-> where]

\* SELECT * FROM orders
SelectStar == Stmt("SELECT", "select", <<AliasedTableExpr("orders", "")>>,
                   <<StarExpr>>, <<>>, "", NoWhere)
\* SELECT id FROM orders WHERE id = 1
SelectColumn == Stmt("SELECT", "select", <<AliasedTableExpr("orders", "")>>,
                     <<ColName("id")>>, <<>>, "",
                     Pred(<<"id", "=", "1">>))
\* SELECT * FROM orders JOIN users ON orders.user_id = users.id
SelectJoin == Stmt("SELECT", "select",
                   <<JoinTableExpr(AliasedTableExpr("orders", ""),
                                   AliasedTableExpr("users", ""))>>,
                   <<StarExpr>>, <<>>, "", NoWhere)
\* SELECT id FROM orders, users
SelectTwoTables ==
    Stmt("SELECT", "select",
         <<AliasedTableExpr("orders", ""), AliasedTableExpr("users", "")>>,
         <<ColName("id")>>, <<>>, "", NoWhere)
\* SELECT * FROM orders JOIN users ON ... JOIN items ON ...
SelectNestedJoin ==
    Stmt("SELECT", "select",
         <<JoinTableExpr(JoinTableExpr(AliasedTableExpr("orders", ""),
                                       AliasedTableExpr("users", "")),
                         AliasedTableExpr("items", ""))>>,
         <<StarExpr>>, <<>>, "", NoWhere)
\* INSERT INTO orders (id) VALUES (1)
InsertStmt == Stmt("INSERT", "insert", <<>>, <<>>, <<"id">>, "orders", NoWhere)
\* UPDATE orders SET id = 2
UpdateStmt == Stmt("UPDATE", "update", <<AliasedTableExpr("orders", "")>>,
                   <<>>, <<"id">>, "", NoWhere)
\* DELETE FROM users
DeleteStmt == Stmt("DELETE", "delete", <<AliasedTableExpr("users", "")>>,
                   <<>>, <<>>, "", NoWhere)
\* DROP TABLE orders
DropStmt == Stmt("DROP", "ddl", <<>>, <<>>, <<>>, "orders", NoWhere)
\* the decoy QueryRow runs instead of a refused statement: SELECT 1 WHERE 1=0
DecoyStmt == Stmt("SELECT", "select", <<>>, <<>>, <<>>, "",
                  Pred(<<"1", "=", "0">>))

\* SHOW TABLES: a statement the parser accepts that is none of the above
ShowStmt == Stmt("SHOW", "other", <<>>, <<>>, <<>>, "", NoWhere)

Statements == {SelectStar, SelectColumn, SelectJoin, InsertStmt, UpdateStmt,
               DeleteStmt, DropStmt}

\* every table a statement names, joins and DDL targets included
ReferencedTables(query) ==
    {query.from[i].name : i \in {j \in 1..Len(query.from) :
                                     query.from[j].node = "aliased"}}
    \cup {query.from[i].left.name : i \in {j \in 1..Len(query.from) :
                                               query.from[j].node = "join"}}
    \cup {query.from[i].right.name : i \in {j \in 1..Len(query.from) :
                                                query.from[j].node = "join"}}
    \cup (IF query.table = "" THEN {} ELSE {query.table})

---------------------------------------------------------------------------
(* pkg/secure_sqlite/query.go : the entry points of a connection opened    *)
(* for SessionUser (db.username)                                           *)

\* getActionType: decided by the leading keyword of the text
getActionType(query) ==
    CASE query.verb = "SELECT" -> [err |-> FALSE, val |-> Select]
      [] query.verb = "INSERT" -> [err |-> FALSE, val |-> Insert]
      [] query.verb = "UPDATE" -> [err |-> FALSE, val |-> Update]
      [] query.verb = "DELETE" -> [err |-> FALSE, val |-> Delete]
      [] query.verb = "CREATE" -> [err |-> FALSE, val |-> Create]
      [] query.verb = "DROP" -> [err |-> FALSE, val |-> Drop]
      [] query.verb = "ALTER" -> [err |-> FALSE, val |-> Alter]
      [] OTHER -> [err |-> TRUE, val |-> Select]

\* getPermissionType: every action maps to the table scope
getPermissionType(action) == TablePermission

\* Parser.Parse: the tree of the text, or an error for text that has none
Parse(query) == [err |-> query.kind = "invalid", val |-> query]

\* the tables the switch on the statement type collects: FROM entries that
\* are plain tables (a join entry is neither case of the inner switch), the
\* INSERT target, the first table of UPDATE and DELETE
extractTables(stmt, kinds) ==
    IF stmt.kind \notin kinds THEN <<>>
    ELSE CASE stmt.kind = "select" ->
                  LET plain == SelectSeq(stmt.from,
                                         LAMBDA e : e.node = "aliased")
                  IN  [i \in 1..Len(plain) |-> plain[i].name]
           [] stmt.kind = "insert" -> <<stmt.table>>
           [] stmt.kind \in {"update", "delete"} -> <<stmt.from[1].name>>
           [] OTHER -> <<>>

\* the columns collected alongside: projected column names (not "*"), the
\* INSERT column list, the left-hand sides of SET
extractColumns(stmt, kinds) ==
    IF stmt.kind \notin kinds THEN <<>>
    ELSE CASE stmt.kind = "select" ->
                  LET named == SelectSeq(stmt.sel, LAMBDA e : e.node = "col")
                  IN  [i \in 1..Len(named) |-> named[i].name]
           [] stmt.kind \in {"insert", "update"} -> stmt.cols
           [] OTHER -> <<>>

\* outcome of a loop of checks that stops at the first one that does not
\* pass: "PASS", or the code of the first failure (query.go:75-90)
FirstFailure(n, check(_)) ==
    IF \E i \in 1..n : check(i) # "PASS"
    THEN check(CHOOSE i \in 1..n : /\ check(i) # "PASS"
                                   /\ \A j \in 1..(i - 1) : check(j) = "PASS")
    ELSE "PASS"

Verdict(r, denied) ==
    IF r.err THEN "PERMISSION_ERROR"
    ELSE IF denied THEN "PERMISSION_DENIED" ELSE "PASS"

checkTables(tables, permission) ==
    FirstFailure(Len(tables), LAMBDA i :
        LET r == HasTablePermission(SessionUser, tables[i], permission)
        IN  Verdict(r, ~r.val))

\* for table in tables, for col in columns
checkColumns(tables, columns, permission) ==
    FirstFailure(Len(tables) * Len(columns), LAMBDA k :
        LET t == tables[((k - 1) \div Len(columns)) + 1]
            c == columns[((k - 1) % Len(columns)) + 1]
            r == HasColumnPermission(SessionUser, t, c, permission)
        IN  Verdict(r, ~r.val))

\* only the first rule returned for a table is looked at
checkRows(tables, permission) ==
    FirstFailure(Len(tables), LAMBDA i :
        LET r == GetRowPermissions(SessionUser, tables[i], permission)
        IN  Verdict(r, Len(r.val) > 0 /\ ~r.val[1].Granted))

\* the checks in the order the entry points run them
checksInOrder(tableCheck, columnCheck, rowCheck) ==
    IF tableCheck # "PASS" THEN tableCheck
    ELSE IF columnCheck # "PASS" THEN columnCheck
    ELSE rowCheck

DMLKinds == {"select", "insert", "update", "delete"}

\* Query: the engine (assumed to succeed) is given the text as submitted
QueryOutcome(query) ==
    LET action == getActionType(query)
        stmt == Parse(query)
        tables == extractTables(stmt.val, DMLKinds)
        columns == extractColumns(stmt.val, DMLKinds)
        permission == getPermissionType(action.val)
        verdict == checksInOrder(checkTables(tables, permission),
                                 checkColumns(tables, columns, permission),
                                 checkRows(tables, permission))
    IN  IF action.err THEN Result("Query", query, "UNSUPPORTED_QUERY", NoStmt)
        ELSE IF stmt.err THEN Result("Query", query, "PARSE_ERROR", NoStmt)
        ELSE IF verdict # "PASS" THEN Result("Query", query, verdict, NoStmt)
        ELSE Result("Query", query, "OK", query)

\* Exec: DDL goes to the engine before any check; columns are checked for
\* INSERT and UPDATE only
ExecOutcome(query) ==
    LET action == getActionType(query)
        stmt == Parse(query)
        tables == extractTables(stmt.val, DMLKinds)
        columns == extractColumns(stmt.val, DMLKinds)
        permission == getPermissionType(action.val)
        verdict == checksInOrder(
                       checkTables(tables, permission),
                       IF action.val \in {Insert, Update}
                       THEN checkColumns(tables, columns, permission)
                       ELSE "PASS",
                       checkRows(tables, permission))
    IN  IF action.err THEN Result("Exec", query, "UNSUPPORTED_QUERY", NoStmt)
        ELSE IF stmt.err THEN Result("Exec", query, "PARSE_ERROR", NoStmt)
        ELSE IF stmt.val.kind = "ddl" THEN Result("Exec", query, "OK", query)
        ELSE IF verdict # "PASS" THEN Result("Exec", query, verdict, NoStmt)
        ELSE Result("Exec", query, "OK", query)

\* QueryRow: only SELECT is analysed; every refusal runs the decoy, whose
\* Scan yields sql.ErrNoRows
QueryRowOutcome(query) ==
    LET stmt == Parse(query)
        tables == extractTables(stmt.val, {"select"})
        columns == extractColumns(stmt.val, {"select"})
        verdict == checksInOrder(
                       checkTables(tables, TablePermission),
                       checkColumns(tables, columns, ColumnPermission),
                       checkRows(tables, RowPermission))
    IN  IF stmt.err \/ verdict # "PASS"
        THEN Result("QueryRow", query, "NO_ROWS", DecoyStmt)
        ELSE Result("QueryRow", query, "OK", query)

PrepareOutcome(query) ==
    LET stmt == Parse(query)
        tables == extractTables(stmt.val, DMLKinds)
        columns == extractColumns(stmt.val, DMLKinds)
        verdict == checksInOrder(
                       checkTables(tables, TablePermission),
                       checkColumns(tables, columns, ColumnPermission),
                       checkRows(tables, RowPermission))
    IN  IF stmt.err THEN Result("Prepare", query, "PARSE_ERROR", NoStmt)
        ELSE IF verdict # "PASS" THEN Result("Prepare", query, verdict, NoStmt)
        ELSE Result("Prepare", query, "OK", query)

\* one step of an invocation: a check of a stage with its verdict, or the
\* call of the engine
Check(stage, tableName, columnName, verdict) ==
    [stage |-> stage, table |-> tableName, column |-> columnName,
     verdict |-> verdict]

\* db.SqlDB.Query / Exec / QueryRow / Prepare with the text as submitted
EngineCall == Check("engine", "", "", "PASS")
\* db.SqlDB.QueryRow("SELECT 1 WHERE 1=0")
DecoyCall == Check("decoy", "", "", "PASS")

\* the checks of the three loops in the order the loops would make them
tableChecks(tables, permission) ==
    [i \in 1..Len(tables) |->
        LET r == HasTablePermission(SessionUser, tables[i], permission)
        IN  Check("table", tables[i], "", Verdict(r, ~r.val))]

columnChecks(tables, columns, permission) ==
    [k \in 1..(Len(tables) * Len(columns)) |->
        LET t == tables[((k - 1) \div Len(columns)) + 1]
            c == columns[((k - 1) % Len(columns)) + 1]
            r == HasColumnPermission(SessionUser, t, c, permission)
        IN  Check("column", t, c, Verdict(r, ~r.val))]

rowChecks(tables, permission) ==
    [i \in 1..Len(tables) |->
        LET r == GetRowPermissions(SessionUser, tables[i], permission)
        IN  Check("row", tables[i], "",
                  Verdict(r, Len(r.val) > 0 /\ ~r.val[1].Granted))]

\* every check passes
AllPass(planned) == \A i \in 1..Len(planned) : planned[i].verdict = "PASS"

\* the loops carried on after a check that does not pass
RanAll(planned) == planned

\* the checks that are made: each loop returns at the first check that does
\* not pass, so the checks up to and including that one
Ran(planned) ==
    IF AllPass(planned) THEN planned
    ELSE SubSeq(planned, 1,
                CHOOSE i \in 1..Len(planned) :
                    /\ planned[i].verdict # "PASS"
                    /\ \A j \in 1..(i - 1) : planned[j].verdict = "PASS")

\* the checks made, followed by the call of the engine when all passed
\* and by refused otherwise
Invoked(planned, refused) ==
    Ran(planned) \o (IF AllPass(planned) THEN <<EngineCall>> ELSE refused)

\* the steps of one invocation of Query
QueryChecks(query) ==
    LET action == getActionType(query)
        stmt == Parse(query)
        tables == extractTables(stmt.val, DMLKinds)
        columns == extractColumns(stmt.val, DMLKinds)
        permission == getPermissionType(action.val)
    IN  IF action.err \/ stmt.err THEN <<>>
        ELSE Invoked(tableChecks(tables, permission)
                         \o columnChecks(tables, columns, permission)
                         \o rowChecks(tables, permission), <<>>)

\* the steps of one invocation of Exec
ExecChecks(query) ==
    LET action == getActionType(query)
        stmt == Parse(query)
        tables == extractTables(stmt.val, DMLKinds)
        columns == extractColumns(stmt.val, DMLKinds)
        permission == getPermissionType(action.val)
    IN  IF action.err \/ stmt.err THEN <<>>
        ELSE IF stmt.val.kind = "ddl" THEN <<EngineCall>>
        ELSE Invoked(tableChecks(tables, permission)
                         \o (IF action.val \in {Insert, Update}
                             THEN columnChecks(tables, columns, permission)
                             ELSE <<>>)
                         \o rowChecks(tables, permission), <<>>)

\* the steps of one invocation of QueryRow
QueryRowChecks(query) ==
    LET stmt == Parse(query)
        tables == extractTables(stmt.val, {"select"})
        columns == extractColumns(stmt.val, {"select"})
    IN  IF stmt.err THEN <<DecoyCall>>
        ELSE Invoked(tableChecks(tables, TablePermission)
                         \o columnChecks(tables, columns, ColumnPermission)
                         \o rowChecks(tables, RowPermission), <<DecoyCall>>)

\* the steps of one invocation of Prepare
PrepareChecks(query) ==
    LET stmt == Parse(query)
        tables == extractTables(stmt.val, DMLKinds)
        columns == extractColumns(stmt.val, DMLKinds)
    IN  IF stmt.err THEN <<>>
        ELSE Invoked(tableChecks(tables, TablePermission)
                         \o columnChecks(tables, columns, ColumnPermission)
                         \o rowChecks(tables, RowPermission), <<>>)

\* what an invocation returned together with the steps it made
Invocation(r, checks) ==
    [api |-> r.api, query |-> r.query, code |-> r.code, engine |-> r.engine,
     checks |-> checks]

Query(query) ==
    /\ last' = Invocation(QueryOutcome(query), QueryChecks(query))
    /\ UNCHANGED <<users, permissions, txOpen, roleVars, calls, parsed>>

Exec(query) ==
    /\ last' = Invocation(ExecOutcome(query), ExecChecks(query))
    /\ UNCHANGED <<users, permissions, txOpen, roleVars, calls, parsed>>

QueryRow(query) ==
    /\ last' = Invocation(QueryRowOutcome(query), QueryRowChecks(query))
    /\ UNCHANGED <<users, permissions, txOpen, roleVars, calls, parsed>>

Prepare(query) ==
    /\ last' = Invocation(PrepareOutcome(query), PrepareChecks(query))
    /\ UNCHANGED <<users, permissions, txOpen, roleVars, calls, parsed>>

\* Begin: the engine's own transaction handle is returned as it is
Begin ==
    /\ ~txOpen
    /\ txOpen' = TRUE
    /\ last' = Result("Begin", NoStmt, "OK", NoStmt)
    /\ UNCHANGED <<users, permissions, roleVars, calls, parsed>>

\* Exec on the handle Begin returned: the engine runs the text
TxExec(query) ==
    /\ txOpen
    /\ last' = Result("Tx.Exec", query, "OK", query)
    /\ UNCHANGED <<users, permissions, txOpen, roleVars, calls, parsed>>

\* Commit or Rollback on the handle
TxEnd ==
    /\ txOpen
    /\ txOpen' = FALSE
    /\ last' = Result("Tx.End", NoStmt, "OK", NoStmt)
    /\ UNCHANGED <<users, permissions, roleVars, calls, parsed>>

---------------------------------------------------------------------------
(* Roles: the role maps of pkg/auth/memory.go, the role operations of      *)
(* pkg/rbac/rbac.go and the grants to a role of the SecureSQLite facade    *)

RoleNames == {"admin", "orders"}
Tokens == {"", "token"}

\* AddUser: set the token of the name
AddUser(username, token) ==
    /\ users' = [u \in DOMAIN users \cup {username} |->
                    IF u = username THEN token ELSE users[u]]
    /\ last' = Result("AddUser", NoStmt, "OK", NoStmt)
    /\ UNCHANGED <<permissions, txOpen, roleVars, calls, parsed>>

\* GetRoleName: the name of the id, an error for an id the map does not hold
GetRoleName(roleID) ==
    IF roleID \in DOMAIN roles
    THEN [err |-> FALSE, val |-> roles[roleID]]
    ELSE [err |-> TRUE, val |-> ""]

\* GetRoleID: the id of the name, an error for a name the map does not hold
GetRoleID(roleName) ==
    IF roleName \in DOMAIN roleNames
    THEN [err |-> FALSE, val |-> roleNames[roleName]]
    ELSE [err |-> TRUE, val |-> 0]

\* GetUsersWithRole: the names whose entry of userRoles lists the role
GetUsersWithRole(roleName) ==
    {u \in DOMAIN userRoles :
        \E i \in 1..Len(userRoles[u]) : userRoles[u][i] = roleName}

\* RoleExists: the name resolves to a positive id
RoleExists(name) ==
    LET roleID == GetRoleID(name)
    IN  IF roleID.err THEN FALSE ELSE roleID.val > 0

\* CreateRole -> AddRole: an error for a name in use, otherwise the next id
\* is taken and both maps get the new entry
CreateRole(name) ==
    /\ nextRoleID <= MaxRoles
    /\ IF name \in DOMAIN roleNames
       THEN /\ last' = Result("CreateRole", NoStmt, "ROLE_EXISTS", NoStmt)
            /\ UNCHANGED <<roles, roleNames, nextRoleID>>
       ELSE /\ roles' = [i \in DOMAIN roles \cup {nextRoleID} |->
                            IF i = nextRoleID THEN name ELSE roles[i]]
            /\ roleNames' = [n \in DOMAIN roleNames \cup {name} |->
                                IF n = name THEN nextRoleID ELSE roleNames[n]]
            /\ nextRoleID' = nextRoleID + 1
            /\ last' = Result("CreateRole", NoStmt, "OK", NoStmt)
    /\ UNCHANGED <<users, permissions, userRoles, txOpen, calls, parsed>>

\* the record that stands for membership of a role
RolePermission(roleName) == Permission(TablePermission, roleName, "", NoCondition)

IsRolePermission(perm, roleName) ==
    perm.Type = TablePermission /\ perm.Table = roleName

\* UserHasRole: some record of the list is a table-scope record whose table
\* is the role name
UserHasRole(username, roleName) ==
    LET userPerms == GetUserPermissions(username)
    IN  IF userPerms.err THEN [err |-> TRUE, val |-> FALSE]
        ELSE [err |-> FALSE,
              val |-> \E i \in 1..Len(userPerms.val) :
                          IsRolePermission(userPerms.val[i], roleName)]

\* AssignRoleToUser: the name must authenticate with the empty token; the
\* list of the name is then replaced by the one membership record
AssignRoleToUser(username, roleName) ==
    LET valid == Authenticate(username, "")
    IN  /\ IF ~valid
           THEN /\ UNCHANGED permissions
                /\ last' = Result("AssignRoleToUser", NoStmt,
                                  "USER_NOT_FOUND", NoStmt)
           ELSE /\ UpdateUserPermissions(username, <<RolePermission(roleName)>>)
                /\ last' = Result("AssignRoleToUser", NoStmt, "OK", NoStmt)
        /\ UNCHANGED <<users, txOpen, roleVars, calls, parsed>>

\* RemoveRoleFromUser: the same test of the name, then the list without its
\* membership records of the role
RemoveRoleFromUser(username, roleName) ==
    LET valid == Authenticate(username, "")
        userPerms == GetUserPermissions(username)
    IN  /\ IF ~valid
           THEN /\ UNCHANGED permissions
                /\ last' = Result("RemoveRoleFromUser", NoStmt,
                                  "USER_NOT_FOUND", NoStmt)
           ELSE IF userPerms.err
           THEN /\ UNCHANGED permissions
                /\ last' = Result("RemoveRoleFromUser", NoStmt,
                                  "STORE_ERROR", NoStmt)
           ELSE /\ UpdateUserPermissions(username,
                       SelectSeq(userPerms.val,
                                 LAMBDA perm : ~IsRolePermission(perm, roleName)))
                /\ last' = Result("RemoveRoleFromUser", NoStmt, "OK", NoStmt)
        /\ UNCHANGED <<users, txOpen, roleVars, calls, parsed>>

\* the outcomes of RBACManager.DeleteRole up to the call on the store: the
\* id of the name is looked up, RemoveRoleFromUser runs for every name
\* GetUsersWithRole returns, and the first name it fails for ends the call
\* with its error, after any number of the others
DeleteRoleOutcomes(name) ==
    LET roleID == GetRoleID(name)
        holders == GetUsersWithRole(name)
        removable == {u \in holders : /\ Authenticate(u, "")
                                      /\ ~GetUserPermissions(u).err}
        After(done) == [u \in DOMAIN permissions |->
                           IF u \in done
                           THEN SelectSeq(permissions[u],
                                    LAMBDA perm : ~IsRolePermission(perm, name))
                           ELSE permissions[u]]
    IN  IF roleID.err
        THEN {[code |-> "ROLE_NOT_FOUND", deleted |-> FALSE,
               perms |-> permissions]}
        ELSE IF removable = holders
        THEN {[code |-> "OK", deleted |-> TRUE, perms |-> After(holders)]}
        ELSE {[code |-> IF Authenticate(f, "") THEN "STORE_ERROR"
                        ELSE "USER_NOT_FOUND",
               deleted |-> FALSE, perms |-> After(done)] :
                  f \in holders \ removable, done \in SUBSET removable}

\* the argument of a call that names a role
RoleCall(name) == [role |-> name]

\* RBACManager.DeleteRole, ending in MemoryProvider.DeleteRole: the id and
\* the name leave the role maps and the name leaves every entry of
\* userRoles
DeleteRole(name) ==
    /\ \E o \in DeleteRoleOutcomes(name) :
           /\ permissions' = o.perms
           /\ last' = Result("DeleteRole", RoleCall(name), o.code, NoStmt)
           /\ IF o.deleted
              THEN /\ roles' = [i \in DOMAIN roles \ {GetRoleID(name).val} |->
                                   roles[i]]
                   /\ roleNames' = [n \in DOMAIN roleNames \ {name} |->
                                       roleNames[n]]
                   /\ userRoles' = [u \in DOMAIN userRoles |->
                                       SelectSeq(userRoles[u],
                                                 LAMBDA r : r # name)]
              ELSE UNCHANGED <<roles, roleNames, userRoles>>
    /\ UNCHANGED <<users, nextRoleID, txOpen, calls, parsed>>

\* the outcomes of a grant to a role: the record is appended to the list of
\* every name GetUsersWithRole returns; the loop stops with an error at the
\* first name the store does not know, after any number of the others
RoleGrantOutcomes(roleID, newPerm) ==
    LET roleName == GetRoleName(roleID)
        holders == GetUsersWithRole(roleName.val)
        known == holders \cap DOMAIN users
        After(done) == [u \in DOMAIN permissions |->
                           IF u \in done THEN Append(permissions[u], newPerm)
                           ELSE permissions[u]]
    IN  IF roleName.err
        THEN {[code |-> "ROLE_NOT_FOUND", perms |-> permissions]}
        ELSE IF known = holders
        THEN {[code |-> "OK", perms |-> After(holders)]}
        ELSE {[code |-> "STORE_ERROR", perms |-> After(done)] :
                  done \in SUBSET known}

\* no list a grant to the role extends is at the bound
RoleGrantFits(roleID) ==
    \A u \in GetUsersWithRole(GetRoleName(roleID).val) :
        Len(permissions[u]) < MaxPerms

\* SecureSQLite.GrantTablePermission(roleID, ...)
SecureSQLiteGrantTablePermission(roleID, tableName, permissionType) ==
    /\ RoleGrantFits(roleID)
    /\ \E o \in RoleGrantOutcomes(roleID,
                    Permission(permissionType, tableName, "", NoCondition)) :
           /\ permissions' = o.perms
           /\ last' = Result("SecureSQLite.GrantTablePermission", NoStmt,
                             o.code, NoStmt)
    /\ UNCHANGED <<users, txOpen, roleVars, calls, parsed>>

\* SecureSQLite.GrantColumnPermission(roleID, ...)
SecureSQLiteGrantColumnPermission(roleID, tableName, columnName, permissionType) ==
    /\ RoleGrantFits(roleID)
    /\ \E o \in RoleGrantOutcomes(roleID,
                    Permission(permissionType, tableName, columnName, NoCondition)) :
           /\ permissions' = o.perms
           /\ last' = Result("SecureSQLite.GrantColumnPermission", NoStmt,
                             o.code, NoStmt)
    /\ UNCHANGED <<users, txOpen, roleVars, calls, parsed>>

\* SecureSQLite.GrantRowPermission(roleID, ...)
SecureSQLiteGrantRowPermission(roleID, tableName, condition, permissionType) ==
    /\ RoleGrantFits(roleID)
    /\ \E o \in RoleGrantOutcomes(roleID,
                    Permission(permissionType, tableName, "", condition)) :
           /\ permissions' = o.perms
           /\ last' = Result("SecureSQLite.GrantRowPermission", NoStmt,
                             o.code, NoStmt)
    /\ UNCHANGED <<users, txOpen, roleVars, calls, parsed>>

---------------------------------------------------------------------------
(* Concurrent callers of a grant (rbac.go:421-437 and its column and row   *)
(* siblings).  The store locks GetUserPermissions and UpdateUserPermissions *)
(* separately, so a grant is three steps: the read, the append to the      *)
(* slice the read returned, and the replace of the whole list.             *)

Callers == {"caller1", "caller2"}

NoPerm == Permission("", "", "", NoCondition)

\* a caller that is in no call; read is the list the call was given by the
\* store, userPerms the caller's slice, code what the call returned
Idle == [pc |-> "idle", username |-> "", newPerm |-> NoPerm,
         read |-> <<>>, userPerms |-> <<>>, code |-> ""]

\* the records concurrent callers grant
RacePerms == {Permission(TablePermission, "orders", "", NoCondition),
              Permission(RowPermission, "orders", "", Cond1)}

\* userPerms, err := m.AuthProvider.GetUserPermissions(username)
GrantRead(c, username, newPerm) ==
    LET userPerms == GetUserPermissions(username)
    IN  /\ calls[c].pc \in {"idle", "done"}
        /\ ~userPerms.err => Len(userPerms.val) < MaxPerms
        /\ calls' = [calls EXCEPT ![c] =
                        IF userPerms.err
                        THEN [Idle EXCEPT !.pc = "done", !.username = username,
                                          !.newPerm = newPerm,
                                          !.code = "STORE_ERROR"]
                        ELSE [Idle EXCEPT !.pc = "append", !.username = username,
                                          !.newPerm = newPerm,
                                          !.read = userPerms.val,
                                          !.userPerms = userPerms.val]]
        /\ last' = IF userPerms.err
                   THEN Result("Grant", NoStmt, "STORE_ERROR", NoStmt)
                   ELSE last
        /\ UNCHANGED <<users, permissions, txOpen, roleVars, parsed>>

\* a list that may occupy the array of the slice the caller read: it
\* extends that slice
SharesArray(list, read) ==
    /\ Len(list) > Len(read)
    /\ SubSeq(list, 1, Len(read)) = read

\* the list after the slot behind the read slice was written
SlotWritten(list, read, newPerm) ==
    IF SharesArray(list, read)
    THEN [list EXCEPT ![Len(read) + 1] = newPerm]
    ELSE list

\* userPerms = append(userPerms, newPerm): the slice the store returned is
\* the store's own; with spare capacity the append writes the slot behind
\* it in place, outside the store's lock, and every slice over the same
\* array sees the write; without, the append copies.  The capacity is not
\* part of the model: both outcomes are possible.
GrantAppend(c) ==
    LET call == calls[c]
    IN  /\ call.pc = "append"
        /\ \E inPlace \in BOOLEAN :
               /\ calls' = [d \in Callers |->
                               IF d = c
                               THEN [call EXCEPT
                                        !.pc = "update",
                                        !.userPerms = Append(call.read, call.newPerm)]
                               ELSE IF inPlace /\ calls[d].username = call.username
                               THEN [calls[d] EXCEPT
                                        !.userPerms = SlotWritten(@, call.read,
                                                                  call.newPerm)]
                               ELSE calls[d]]
               /\ permissions' =
                      IF inPlace
                      THEN [permissions EXCEPT ![call.username] =
                               SlotWritten(@, call.read, call.newPerm)]
                      ELSE permissions
        /\ UNCHANGED <<users, last, txOpen, roleVars, parsed>>

\* a store that serialises the updates of a user: the new record is appended
\* to the list as it is at the time of the write
GrantUpdateMerging(c) ==
    LET call == calls[c]
    IN  /\ call.pc = "update"
        /\ UpdateUserPermissions(call.username,
                                 Append(permissions[call.username], call.newPerm))
        /\ calls' = [calls EXCEPT ![c] = [call EXCEPT !.pc = "done",
                                                      !.code = "OK"]]
        /\ last' = Result("Grant", NoStmt, "OK", NoStmt)
        /\ UNCHANGED <<users, txOpen, roleVars, parsed>>

\* return m.AuthProvider.UpdateUserPermissions(username, userPerms)
GrantUpdate(c) ==
    LET call == calls[c]
    IN  /\ call.pc = "update"
        /\ UpdateUserPermissions(call.username, call.userPerms)
        /\ calls' = [calls EXCEPT ![c] = [call EXCEPT !.pc = "done",
                                                      !.code = "OK"]]
        /\ last' = Result("Grant", NoStmt, "OK", NoStmt)
        /\ UNCHANGED <<users, txOpen, roleVars, parsed>>

---------------------------------------------------------------------------
(* Concurrent callers of a revoke (rbac.go:440-457 and 520-537): like a    *)
(* grant, a revoke reads the list under the store's lock, works on the     *)
(* slice outside it, and replaces the list under the lock again.  A caller *)
(* that has returned from a revoke is at "revoked"; newPerm holds the scope,*)
(* table and condition the revoke names.                                   *)

\* RevokeTablePermission: userPerms, err := GetUserPermissions(username)
RevokeRead(c, username, tableName, permission) ==
    LET userPerms == GetUserPermissions(username)
        named == Permission(permission, tableName, "", NoCondition)
    IN  /\ calls[c].pc \in {"idle", "done", "revoked"}
        /\ calls' = [calls EXCEPT ![c] =
                        IF userPerms.err
                        THEN [Idle EXCEPT !.pc = "revoked",
                                          !.username = username,
                                          !.newPerm = named,
                                          !.code = "STORE_ERROR"]
                        ELSE [Idle EXCEPT !.pc = "replace",
                                          !.username = username,
                                          !.newPerm = named,
                                          !.read = userPerms.val,
                                          !.userPerms = userPerms.val]]
        /\ last' = IF userPerms.err
                   THEN Result("Revoke", NoStmt, "STORE_ERROR", NoStmt)
                   ELSE last
        /\ UNCHANGED <<users, permissions, txOpen, roleVars, parsed>>

\* RevokeTablePermission: the loop that copies the records of other scopes
\* and tables into a new slice, and UpdateUserPermissions(username, newPerms)
RevokeUpdate(c) ==
    LET call == calls[c]
        newPerms == Without(call.userPerms,
                            LAMBDA perm : /\ perm.Type = call.newPerm.Type
                                          /\ perm.Table = call.newPerm.Table)
    IN  /\ call.pc = "replace"
        /\ UpdateUserPermissions(call.username, newPerms)
        /\ calls' = [calls EXCEPT ![c] = [call EXCEPT !.pc = "revoked",
                                                      !.userPerms = newPerms,
                                                      !.code = "OK"]]
        /\ last' = Result("Revoke", NoStmt, "OK", NoStmt)
        /\ UNCHANGED <<users, txOpen, roleVars, parsed>>

\* RevokeRowPermission: userPerms, err := GetUserPermissions(username)
RevokeRowRead(c, username, tableName, condition, permission) ==
    LET userPerms == GetUserPermissions(username)
        named == Permission(permission, tableName, "", condition)
    IN  /\ calls[c].pc \in {"idle", "done", "revoked"}
        /\ calls' = [calls EXCEPT ![c] =
                        IF userPerms.err
                        THEN [Idle EXCEPT !.pc = "revoked",
                                          !.username = username,
                                          !.newPerm = named,
                                          !.code = "STORE_ERROR"]
                        ELSE [Idle EXCEPT !.pc = "scan",
                                          !.username = username,
                                          !.newPerm = named,
                                          !.read = userPerms.val,
                                          !.userPerms = userPerms.val]]
        /\ last' = IF userPerms.err
                   THEN Result("Revoke", NoStmt, "STORE_ERROR", NoStmt)
                   ELSE last
        /\ UNCHANGED <<users, permissions, txOpen, roleVars, parsed>>

\* a list that may occupy the array of the slice the caller read: it begins
\* with that slice
OverArray(list, read) ==
    /\ Len(list) >= Len(read)
    /\ SubSeq(list, 1, Len(read)) = read

\* the list after element i of the array behind the read slice was marked
MarkWritten(list, read, i, condition) ==
    IF OverArray(list, read)
    THEN [list EXCEPT ![i].Condition = condition]
    ELSE list

\* RevokeRowPermission: the loop finds the first record of the scope, table
\* and condition and executes userPerms[i].Condition = "REVOKED:" + condition.
\* The slice is the store's own, so the write lands in the store's array,
\* outside the store's lock; no lock orders it with the reads of others, so
\* it may or may not be visible to them before the replace.  Without such a
\* record the call returns nil.
RevokeRowMark(c) ==
    LET call == calls[c]
        i == FirstIndex(call.userPerms,
                        LAMBDA perm : /\ perm.Type = call.newPerm.Type
                                      /\ perm.Table = call.newPerm.Table
                                      /\ perm.Condition = call.newPerm.Condition)
        marked == RevokedPermissionPrefix \o call.newPerm.Condition
    IN  /\ call.pc = "scan"
        /\ IF i = 0
           THEN /\ calls' = [calls EXCEPT ![c] = [call EXCEPT !.pc = "revoked",
                                                              !.code = "OK"]]
                /\ last' = Result("Revoke", NoStmt, "OK", NoStmt)
                /\ UNCHANGED permissions
           ELSE /\ \E visible \in BOOLEAN :
                       /\ calls' = [d \in Callers |->
                                       IF d = c
                                       THEN [call EXCEPT
                                                !.pc = "rowupdate",
                                                !.userPerms[i].Condition = marked]
                                       ELSE IF visible
                                               /\ calls[d].username = call.username
                                       THEN [calls[d] EXCEPT
                                                !.userPerms =
                                                    MarkWritten(@, call.read, i,
                                                                marked)]
                                       ELSE calls[d]]
                       /\ permissions' =
                              IF visible
                              THEN [permissions EXCEPT ![call.username] =
                                       MarkWritten(@, call.read, i, marked)]
                              ELSE permissions
                /\ UNCHANGED last
        /\ UNCHANGED <<users, txOpen, roleVars, parsed>>

\* RevokeRowPermission: return UpdateUserPermissions(username, userPerms)
RevokeRowUpdate(c) ==
    LET call == calls[c]
    IN  /\ call.pc = "rowupdate"
        /\ UpdateUserPermissions(call.username, call.userPerms)
        /\ calls' = [calls EXCEPT ![c] = [call EXCEPT !.pc = "revoked",
                                                      !.code = "OK"]]
        /\ last' = Result("Revoke", NoStmt, "OK", NoStmt)
        /\ UNCHANGED <<users, txOpen, roleVars, parsed>>

---------------------------------------------------------------------------
(* Security rewriter (package sqlparser: SecurityTransformer).  A client   *)
(* parses a text with sqlparser.Parse, holds the tree, and hands it to     *)
(* TransformQuery, which changes the tree in place and returns it rendered *)
(* by sqlparser.String.  A text is the statement record with its filter    *)
(* as the sequence of its tokens; a tree holds the filter as an expression.*)

OrExpr(left, right) == [node |-> "or", left |-> left, right |-> right]

\* fragments of condition strings: the column the alias replacement looks
\* for, and a fragment that ends in it as part of a longer identifier
IdentityColumn == "user_id"
CondOr == <<"user_id", "=", "1", "or", "public", "=", "1">>
CondQualified == <<"o", ".", "user_id", "=", "1">>
CondLong == <<"super_", "user_id", "=", "1">>

\* AndExpr.Format and OrExpr.Format of the parser library print their
\* operands around the keyword and add no parentheses
RECURSIVE Format(_)
Format(expr) ==
    CASE expr.node = "none" -> <<>>
      [] expr.node = "pred" -> expr.condition
      [] expr.node = "and" -> Format(expr.left) \o <<"and">> \o Format(expr.right)
      [] expr.node = "or" -> Format(expr.left) \o <<"or">> \o Format(expr.right)

\* sqlparser.String: the statement with its filter printed
String(statement) == [statement EXCEPT !.where = Format(@)]

\* position of the last occurrence of a keyword in a token sequence, or 0
LastIndexOf(tokens, keyword) ==
    IF \E i \in 1..Len(tokens) : tokens[i] = keyword
    THEN CHOOSE i \in 1..Len(tokens) :
             /\ tokens[i] = keyword
             /\ \A j \in (i + 1)..Len(tokens) : tokens[j] # keyword
    ELSE 0

\* the grammar of a filter: "or" binds weaker than "and", both associate to
\* the left, and what stands between keywords is one predicate
RECURSIVE ParseExpr(_)
ParseExpr(tokens) ==
    LET o == LastIndexOf(tokens, "or")
        a == LastIndexOf(tokens, "and")
    IN  IF o > 0
        THEN OrExpr(ParseExpr(SubSeq(tokens, 1, o - 1)),
                    ParseExpr(SubSeq(tokens, o + 1, Len(tokens))))
        ELSE IF a > 0
        THEN AndExpr(ParseExpr(SubSeq(tokens, 1, a - 1)),
                     ParseExpr(SubSeq(tokens, a + 1, Len(tokens))))
        ELSE Pred(tokens)

\* a filter text the grammar accepts: no keyword without both operands and
\* no revocation marker, which is not a token of the language
Parses(tokens) ==
    /\ tokens # <<>>
    /\ \A i \in 1..Len(tokens) :
           /\ tokens[i] # RevokedPermissionPrefix[1]
           /\ tokens[i] \in {"and", "or"} =>
                  /\ i > 1 /\ i < Len(tokens)
                  /\ tokens[i + 1] \notin {"and", "or"}

\* sqlparser.Parse of a statement text
SqlparserParse(text) ==
    IF text.kind = "invalid" \/ (text.where # <<>> /\ ~Parses(text.where))
    THEN [err |-> TRUE, val |-> NoStmt]
    ELSE [err |-> FALSE,
          val |-> [text EXCEPT !.where = IF @ = <<>> THEN NoWhere
                                          ELSE ParseExpr(@)]]

\* fmt.Sprintf("user_%d", userID)
UserIDs == {0, 1, 2}
UserNameOf(userID) ==
    CASE userID = 0 -> "user_0"
      [] userID = 1 -> "user_1"
      [] userID = 2 -> "user_2"

\* the FROM entries the loops of getTablesFromSelect and getTableAlias
\* resolve to a table: a plain entry, and the two sides of a join entry
\* when they are plain (a side that is itself a join is passed over)
JoinSides(expr) ==
    (IF expr.left.node = "aliased" THEN <<expr.left>> ELSE <<>>)
    \o (IF expr.right.node = "aliased" THEN <<expr.right>> ELSE <<>>)

RECURSIVE ResolvedEntries(_)
ResolvedEntries(from) ==
    IF from = <<>> THEN <<>>
    ELSE (IF Head(from).node = "aliased" THEN <<Head(from)>>
          ELSE JoinSides(Head(from)))
         \o ResolvedEntries(Tail(from))

getTablesFromSelect(selectStmt) ==
    LET entries == ResolvedEntries(selectStmt.from)
    IN  [i \in 1..Len(entries) |-> entries[i].name]

\* getTableAlias: the first non-empty alias under which the table stands in
\* the current statement, when that is a SELECT
getTableAlias(currentStmt, table) ==
    LET entries == ResolvedEntries(currentStmt.from)
        hits == SelectSeq(entries, LAMBDA e : e.name = table /\ e.as # "")
    IN  IF currentStmt.kind = "select" /\ hits # <<>> THEN hits[1].as ELSE ""

\* strings.ReplaceAll(s, old, new) for an old that is one fragment
RECURSIVE ReplaceAll(_, _, _)
ReplaceAll(s, old, new) ==
    IF s = <<>> THEN <<>>
    ELSE (IF Head(s) = old THEN new ELSE <<Head(s)>>)
         \o ReplaceAll(Tail(s), old, new)

\* a lookup that takes the first row-scope record of the user whatever its
\* table
getRowLevelSecurityConditionsAnyTable(currentStmt, table, userID) ==
    LET userPerms == GetUserPermissions(UserNameOf(userID))
        rows == IF userPerms.err THEN <<>>
                ELSE SelectSeq(userPerms.val,
                               LAMBDA perm : perm.Type = RowPermission)
    IN  IF table = "" \/ userID <= 0 \/ userPerms.err
        THEN [err |-> TRUE, code |-> "STORE_ERROR", val |-> <<>>]
        ELSE IF rows = <<>> THEN [err |-> FALSE, code |-> "OK", val |-> <<>>]
        ELSE [err |-> FALSE, code |-> "OK", val |-> rows[1].Condition]

\* the condition of the first row-scope record whose table is the table,
\* with every "user_id" in it prefixed by the alias when there is one
getRowLevelSecurityConditions(currentStmt, table, userID) ==
    LET userPerms == GetUserPermissions(UserNameOf(userID))
        rows == IF userPerms.err THEN <<>>
                ELSE SelectSeq(userPerms.val,
                               LAMBDA perm : /\ perm.Type = RowPermission
                                             /\ perm.Table = table)
        alias == getTableAlias(currentStmt, table)
    IN  IF table = ""
        THEN [err |-> TRUE, code |-> "EMPTY_TABLE", val |-> <<>>]
        ELSE IF userID <= 0
        THEN [err |-> TRUE, code |-> "INVALID_USER_ID", val |-> <<>>]
        ELSE IF userPerms.err
        THEN [err |-> TRUE, code |-> "STORE_ERROR", val |-> <<>>]
        ELSE IF rows = <<>> THEN [err |-> FALSE, code |-> "OK", val |-> <<>>]
        ELSE IF alias # ""
        THEN [err |-> FALSE, code |-> "OK",
              val |-> ReplaceAll(rows[1].Condition, IdentityColumn,
                                 <<alias, ".", IdentityColumn>>)]
        ELSE [err |-> FALSE, code |-> "OK", val |-> rows[1].Condition]

\* strings.Join of condition strings with " AND "
RECURSIVE JoinAnd(_)
JoinAnd(conditions) ==
    IF conditions = <<>> THEN <<>>
    ELSE IF Len(conditions) = 1 THEN conditions[1]
    ELSE conditions[1] \o <<"and">> \o JoinAnd(Tail(conditions))

\* the loop of addSelectSecurity over the tables: the first failure ends
\* it; the conditions that are not empty are kept, in the order of the tables
selectConditions(selectStmt, userID) ==
    LET tables == getTablesFromSelect(selectStmt)
        r == [i \in 1..Len(tables) |->
                 getRowLevelSecurityConditions(selectStmt, tables[i], userID)]
        failed == {i \in 1..Len(tables) : r[i].err}
    IN  IF failed # {}
        THEN [err |-> TRUE,
              code |-> r[CHOOSE i \in failed : \A j \in failed : i <= j].code,
              val |-> <<>>]
        ELSE [err |-> FALSE, code |-> "OK",
              val |-> SelectSeq([i \in 1..Len(tables) |-> r[i].val],
                                LAMBDA c : c # <<>>)]

\* the condition text is parsed as the filter of "SELECT * FROM dual WHERE
\* ..." and becomes the filter, or the right operand of a conjunction whose
\* left operand is the filter the statement had
withCondition(statement, conditionText) ==
    IF ~Parses(conditionText)
    THEN [code |-> "CONDITION_PARSE_ERROR", stmt |-> statement]
    ELSE [code |-> "OK",
          stmt |-> [statement EXCEPT !.where =
                       IF @ = NoWhere THEN ParseExpr(conditionText)
                       ELSE AndExpr(@, ParseExpr(conditionText))]]

addSelectSecurity(ast, userID) ==
    LET conditions == selectConditions(ast, userID)
    IN  IF conditions.err THEN [code |-> conditions.code, stmt |-> ast]
        ELSE IF Len(conditions.val) > 0
        THEN withCondition(ast, JoinAnd(conditions.val))
        ELSE [code |-> "OK", stmt |-> ast]

addUpdateSecurity(ast, userID) ==
    LET target == ast.from[1]
        conditions == getRowLevelSecurityConditions(ast, target.name, userID)
    IN  IF target.node # "aliased"
        THEN [code |-> "EXPECTED_TABLE", stmt |-> ast]
        ELSE IF conditions.err THEN [code |-> conditions.code, stmt |-> ast]
        ELSE IF conditions.val # <<>>
        THEN withCondition(ast, conditions.val)
        ELSE [code |-> "OK", stmt |-> ast]

addDeleteSecurity(ast, userID) ==
    LET target == ast.from[1]
        conditions == getRowLevelSecurityConditions(ast, target.name, userID)
    IN  IF target.node # "aliased"
        THEN [code |-> "EXPECTED_TABLE", stmt |-> ast]
        ELSE IF conditions.err THEN [code |-> conditions.code, stmt |-> ast]
        ELSE IF conditions.val # <<>>
        THEN withCondition(ast, conditions.val)
        ELSE [code |-> "OK", stmt |-> ast]

\* what TransformQuery returns and the tree it leaves behind: code, the
\* tree (changed in place when a condition was added) and the text
TransformQueryOutcome(statement, userID) ==
    LET userPerms == GetUserPermissions(UserNameOf(userID))
        hasRowPermission ==
            \E i \in 1..Len(userPerms.val) :
                userPerms.val[i].Type = RowPermission
        secured ==
            CASE statement.kind = "select" -> addSelectSecurity(statement, userID)
              [] statement.kind = "update" -> addUpdateSecurity(statement, userID)
              [] statement.kind = "delete" -> addDeleteSecurity(statement, userID)
              [] OTHER -> [code |-> "OK", stmt |-> statement]
    IN  IF statement = NoStmt
        THEN [code |-> "NIL_STATEMENT", stmt |-> statement, text |-> NoStmt]
        ELSE IF statement.kind = "select" /\ userPerms.err
        THEN [code |-> "STORE_ERROR", stmt |-> statement, text |-> NoStmt]
        ELSE IF statement.kind = "select" /\ ~hasRowPermission
        THEN [code |-> "OK", stmt |-> statement, text |-> String(statement)]
        ELSE IF secured.code # "OK"
        THEN [code |-> secured.code, stmt |-> secured.stmt, text |-> NoStmt]
        ELSE [code |-> "OK", stmt |-> secured.stmt,
              text |-> String(secured.stmt)]

\* the arguments of a call of TransformQuery
TransformCall(statement, userID) == [stmt |-> statement, userID |-> userID]

\* TransformQuery(stmt, userID) on the tree the client holds
TransformQuery(userID) ==
    LET r == TransformQueryOutcome(parsed, userID)
    IN  /\ Len(Format(parsed.where)) <= MaxFilter
        /\ parsed' = r.stmt
        /\ last' = Result("TransformQuery", TransformCall(parsed, userID),
                          r.code, r.text)
        /\ UNCHANGED <<users, permissions, txOpen, roleVars, calls>>

\* Parser.Parse(query): the client parses a text and holds the tree
ParseStatement(text) ==
    LET r == SqlparserParse(text)
    IN  /\ parsed' = r.val
        /\ last' = Result("Parse", text, IF r.err THEN "PARSE_ERROR" ELSE "OK",
                          NoStmt)
        /\ UNCHANGED <<users, permissions, txOpen, roleVars, calls>>

\* the texts clients submit to the rewriter
Text(kind, from, where) ==
    [verb |-> "", kind |-> kind, from |-> from, sel |-> <<StarExpr>>,
     cols |-> <<>>, table |-> "", where |-> where]

PredId1 == <<"id", "=", "1">>
PredId1Or2 == <<"id", "=", "1", "or", "id", "=", "2">>

RewriteTexts ==
    {\* SELECT * FROM orders [WHERE id = 1 [OR id = 2]]
     Text("select", <<AliasedTableExpr("orders", "")>>, <<>>),
     Text("select", <<AliasedTableExpr("orders", "")>>, PredId1),
     Text("select", <<AliasedTableExpr("orders", "")>>, PredId1Or2),
     \* SELECT * FROM orders o
     Text("select", <<AliasedTableExpr("orders", "o")>>, <<>>),
     \* SELECT * FROM users u JOIN orders o ON ...
     Text("select", <<JoinTableExpr(AliasedTableExpr("users", "u"),
                                    AliasedTableExpr("orders", "o"))>>, <<>>),
     \* SELECT * FROM orders, users
     Text("select", <<AliasedTableExpr("orders", ""),
                      AliasedTableExpr("users", "")>>, <<>>),
     \* SELECT * FROM orders JOIN users ON ... JOIN items ON ...
     Text("select", <<JoinTableExpr(
                          JoinTableExpr(AliasedTableExpr("orders", ""),
                                        AliasedTableExpr("users", "")),
                          AliasedTableExpr("items", ""))>>, <<>>),
     \* UPDATE orders SET id = 2 WHERE id = 1
     Text("update", <<AliasedTableExpr("orders", "")>>, PredId1),
     \* DELETE FROM users
     Text("delete", <<AliasedTableExpr("users", "")>>, <<>>),
     \* INSERT INTO orders (id) VALUES (1)
     Text("insert", <<>>, <<>>)}

\* the users of the rewriter's store and the records their lists are made of
RewriteUsers == {UserNameOf(0), UserNameOf(1)}

RewriteRecords ==
    {Permission(RowPermission, "orders", "", Cond1),
     Permission(RowPermission, "orders", "", CondOr),
     Permission(RowPermission, "orders", "", CondQualified),
     Permission(RowPermission, "orders", "", CondLong),
     Permission(RowPermission, "orders", "", RevokedPermissionPrefix \o Cond1),
     Permission(RowPermission, "users", "", Cond2),
     Permission(TablePermission, "orders", "", NoCondition)}

RewriteLists ==
    UNION {[1..n -> RewriteRecords] : n \in 0..MaxRules}

---------------------------------------------------------------------------
(* The store written directly, as the tests of the entry points do         *)

\* MemoryProvider.UpdateUserPermissions called by a client of the store:
\* the list of the name is replaced, whether or not the name is a user
SetUserPermissions(username, perms) ==
    /\ UpdateUserPermissions(username, perms)
    /\ last' = Result("UpdateUserPermissions", NoStmt, "OK", NoStmt)
    /\ UNCHANGED <<users, txOpen, roleVars, calls, parsed>>

---------------------------------------------------------------------------
(* The decisions of pkg/rbac/rbac.go called by a client of the manager     *)

\* the arguments of a call on the manager
Call(username, tableName, permission) ==
    [username |-> username, table |-> tableName, permission |-> permission]

\* the pair a decision returns: the value, and the code of the error
Answer(api, call, r) ==
    Result(api, call, IF r.err THEN "ERROR" ELSE "OK", r.val)

\* the arguments of a call that names a column
ColumnCall(username, tableName, columnName, permission) ==
    [username |-> username, table |-> tableName, column |-> columnName,
     permission |-> permission]

HasTablePermissionCall(username, tableName, permission) ==
    /\ last' = Answer("HasTablePermission",
                      Call(username, tableName, permission),
                      HasTablePermission(username, tableName, permission))
    /\ UNCHANGED <<users, permissions, txOpen, roleVars, calls, parsed>>

HasColumnPermissionCall(username, tableName, columnName, permission) ==
    /\ last' = Answer("HasColumnPermission",
                      ColumnCall(username, tableName, columnName, permission),
                      HasColumnPermission(username, tableName, columnName,
                                          permission))
    /\ UNCHANGED <<users, permissions, txOpen, roleVars, calls, parsed>>

GetRowConditionCall(username, tableName) ==
    /\ last' = Answer("GetRowCondition",
                      Call(username, tableName, RowPermission),
                      GetRowCondition(username, tableName))
    /\ UNCHANGED <<users, permissions, txOpen, roleVars, calls, parsed>>

CheckQueryPermissionsCall(username, tableName, permission) ==
    /\ last' = Answer("CheckQueryPermissions",
                      Call(username, tableName, permission),
                      CheckQueryPermissions(username, tableName, permission))
    /\ UNCHANGED <<users, permissions, txOpen, roleVars, calls, parsed>>

GetRowPermissionsCall(username, tableName, permission) ==
    /\ last' = Answer("GetRowPermissions",
                      Call(username, tableName, permission),
                      GetRowPermissions(username, tableName, permission))
    /\ UNCHANGED <<users, permissions, txOpen, roleVars, calls, parsed>>

---------------------------------------------------------------------------
(* pkg/sqlparser: the analysis of a statement (sql_parser.go) and the      *)
(* validation of the permissions it needs (permission_validator.go)        *)

\* MemoryProvider.AddPermission: the record is appended to the list of the
\* name, whether or not the name is a user
AddPermission(username, permission) ==
    /\ Len(permissions[username]) < MaxPerms
    /\ permissions' = [permissions EXCEPT
                           ![username] = Append(@, permission)]
    /\ last' = Result("AddPermission", NoStmt, "OK", NoStmt)
    /\ UNCHANGED <<users, txOpen, roleVars, calls, parsed>>

\* CheckPermission: a record of the action, of any scope, for the table or
\* the wildcard
CheckPermission(username, tableName, action) ==
    LET r == GetUserPermissions(username)
    IN  IF r.err THEN [err |-> TRUE, val |-> FALSE]
        ELSE [err |-> FALSE,
              val |-> \E i \in 1..Len(r.val) :
                          /\ r.val[i].Action = action
                          /\ r.val[i].Type \in Scopes
                          /\ r.val[i].Table \in {tableName, WildcardPermission}]

\* CheckColumnPermission: a column record for the table or the wildcard and
\* for the column or "*"
CheckColumnPermission(username, tableName, columnName) ==
    LET r == GetUserPermissions(username)
    IN  IF r.err THEN [err |-> TRUE, val |-> FALSE]
        ELSE [err |-> FALSE,
              val |-> \E i \in 1..Len(r.val) :
                          /\ r.val[i].Type = ColumnPermission
                          /\ r.val[i].Table \in {tableName, WildcardPermission}
                          /\ r.val[i].Column \in {columnName, "*"}]

\* the statement type of a tree; unknownType is what a tree of no known
\* type is taken for
StatementTypeOf(stmt, unknownType) ==
    CASE stmt.kind = "select" -> "SELECT"
      [] stmt.kind = "insert" -> "INSERT"
      [] stmt.kind = "update" -> "UPDATE"
      [] stmt.kind = "delete" -> "DELETE"
      [] stmt.kind = "ddl" /\ stmt.verb \in {"CREATE", "ALTER", "DROP"} ->
             stmt.verb
      [] OTHER -> unknownType

\* getStatementType: SELECT for what it does not know
getStatementType(stmt) == StatementTypeOf(stmt, "SELECT")

getRequiredAction(stmtType) ==
    CASE stmtType = "SELECT" -> Select
      [] stmtType = "INSERT" -> Insert
      [] stmtType = "UPDATE" -> Update
      [] stmtType = "DELETE" -> Delete
      [] stmtType = "CREATE" -> Create
      [] stmtType = "ALTER" -> Alter
      [] stmtType = "DROP" -> Drop
      [] OTHER -> Select

\* extractTablesFromTableExprs: plain tables, and the sides of a join that
\* are plain tables
extractTablesFromTableExprs(tableExprs) ==
    LET entries == ResolvedEntries(tableExprs)
    IN  [i \in 1..Len(entries) |-> entries[i].name]

\* SQLParser.Parse of a text: an error for text without a tree and for a
\* statement type it has no case for, otherwise type, tables and columns
SQLParserParse(text) ==
    LET ast == SqlparserParse(text)
        stmtType == StatementTypeOf(ast.val, "UNKNOWN")
    IN  IF ast.err \/ stmtType = "UNKNOWN"
        THEN [err |-> TRUE, Type |-> "UNKNOWN", Tables |-> <<>>,
              Columns |-> <<>>]
        ELSE [err |-> FALSE, Type |-> stmtType,
              Tables |->
                  CASE ast.val.kind \in {"select", "update", "delete"} ->
                           extractTablesFromTableExprs(ast.val.from)
                    [] OTHER -> <<ast.val.table>>,
              Columns |->
                  CASE ast.val.kind = "select" ->
                           [i \in 1..Len(ast.val.sel) |-> ast.val.sel[i].name]
                    [] ast.val.kind \in {"insert", "update"} -> ast.val.cols
                    [] OTHER -> <<>>]

\* the checks ValidatePermissions makes for the k-th table: the action on
\* the table, then, for SELECT, every projected column but "*"
validateTable(username, tableName, stmtType, columns) ==
    LET requiredAction == getRequiredAction(stmtType)
        hasPermission == CheckPermission(username, tableName, requiredAction)
        named == SelectSeq(columns, LAMBDA col : col # "*")
        columnCheck ==
            FirstFailure(Len(named), LAMBDA i :
                LET r == CheckColumnPermission(username, tableName, named[i])
                IN  IF r.err THEN "STORE_ERROR"
                    ELSE IF ~r.val THEN "NO_COLUMN_PERMISSION" ELSE "PASS")
    IN  IF hasPermission.err THEN "STORE_ERROR"
        ELSE IF ~hasPermission.val THEN "NO_PERMISSION"
        ELSE IF stmtType = "SELECT" THEN columnCheck
        ELSE "PASS"

\* ValidatePermissions: "OK" for nil, otherwise the code of the error
ValidatePermissionsOutcome(stmt, username) ==
    LET parsedStmt == SQLParserParse(String(stmt))
        stmtType == getStatementType(stmt)
        verdict ==
            FirstFailure(Len(parsedStmt.Tables), LAMBDA k :
                validateTable(username, parsedStmt.Tables[k], stmtType,
                              parsedStmt.Columns))
    IN  IF username = "" THEN "EMPTY_USERNAME"
        ELSE IF parsedStmt.err THEN "PARSE_ERROR"
        ELSE IF verdict # "PASS" THEN verdict
        ELSE "OK"

\* the arguments of a call of ValidatePermissions
ValidateCall(stmt, username) == [stmt |-> stmt, username |-> username]

ValidatePermissions(stmt, username) ==
    /\ last' = Result("ValidatePermissions", ValidateCall(stmt, username),
                      ValidatePermissionsOutcome(stmt, username), NoStmt)
    /\ UNCHANGED <<users, permissions, txOpen, roleVars, calls, parsed>>

---------------------------------------------------------------------------
(* The system: a store holding SessionUser, a connection opened for that   *)
(* user, and callers granting, revoking and submitting statements          *)

SessionToken == "token"

Init ==
    /\ users = [u \in {SessionUser} |-> SessionToken]
    /\ permissions = [u \in Usernames |-> <<>>]
    /\ roles = [i \in {} |-> ""]
    /\ roleNames = [n \in {} |-> 0]
    /\ userRoles = [u \in {} |-> <<>>]
    /\ nextRoleID = 1
    /\ last = NoCall
    /\ txOpen = FALSE
    /\ calls = [c \in Callers |-> Idle]
    /\ parsed = NoStmt

Next ==
    \/ \E u \in Usernames, t \in GrantTargets :
           GrantTablePermission(u, t, TablePermission)
    \/ \E u \in Usernames, t \in GrantTargets :
           RevokeTablePermission(u, t, TablePermission)
    \/ \E u \in Usernames, t \in RowTargets, c \in ColumnNames :
           GrantColumnPermission(u, t, c, ColumnPermission)
    \/ \E u \in Usernames, t \in RowTargets, c \in ColumnNames :
           RevokeColumnPermission(u, t, c, ColumnPermission)
    \/ \E u \in Usernames, t \in RowTargets, c \in Conditions :
           GrantRowPermission(u, t, c, RowPermission)
    \/ \E u \in Usernames, t \in RowTargets, c \in Conditions :
           RevokeRowPermission(u, t, c, RowPermission)
    \/ \E q \in Statements : Query(q)
    \/ \E q \in Statements : Exec(q)
    \/ \E q \in Statements : QueryRow(q)
    \/ \E q \in Statements : Prepare(q)

Spec == Init /\ [][Next]_vars

\* the same connection used through transactions: table grants change while
\* statements are submitted to Exec and to the handles Begin returns
NextTx ==
    \/ \E t \in GrantTargets :
           GrantTablePermission(SessionUser, t, TablePermission)
    \/ \E t \in GrantTargets :
           RevokeTablePermission(SessionUser, t, TablePermission)
    \/ \E c \in Conditions :
           GrantRowPermission(SessionUser, "orders", c, RowPermission)
    \/ \E q \in Statements : Exec(q)
    \/ Begin
    \/ \E q \in Statements : TxExec(q)
    \/ TxEnd

SpecTx == Init /\ [][NextTx]_vars

\* users are added, roles created, assigned and removed, and permissions
\* granted to users and to roles
NextRoles ==
    \/ \E u \in Usernames, tok \in Tokens : AddUser(u, tok)
    \/ \E r \in RoleNames : CreateRole(r)
    \/ \E u \in Usernames, r \in RoleNames : AssignRoleToUser(u, r)
    \/ \E u \in Usernames, r \in RoleNames : RemoveRoleFromUser(u, r)
    \/ \E r \in RoleNames : DeleteRole(r)
    \/ \E u \in Usernames :
           GrantTablePermission(u, "orders", TablePermission)
    \/ \E id \in 1..(MaxRoles + 1) :
           SecureSQLiteGrantTablePermission(id, "orders", TablePermission)
    \/ \E id \in 1..(MaxRoles + 1) :
           SecureSQLiteGrantColumnPermission(id, "orders", "id", ColumnPermission)
    \/ \E id \in 1..(MaxRoles + 1) :
           SecureSQLiteGrantRowPermission(id, "orders", Cond1, RowPermission)

SpecRoles == Init /\ [][NextRoles]_vars

\* two callers granting concurrently
NextRace ==
    \/ \E c \in Callers, u \in Usernames, p \in RacePerms : GrantRead(c, u, p)
    \/ \E c \in Callers : GrantAppend(c)
    \/ \E c \in Callers : GrantUpdate(c)

SpecRace == Init /\ [][NextRace]_vars

\* column and table grants of the session user on several columns
AllColumnNames == {"id", "name"}

NextColumns ==
    \/ \E t \in GrantTargets, c \in AllColumnNames :
           GrantColumnPermission(SessionUser, t, c, ColumnPermission)
    \/ \E t \in GrantTargets, c \in AllColumnNames :
           RevokeColumnPermission(SessionUser, t, c, ColumnPermission)
    \/ GrantTablePermission(SessionUser, "orders", TablePermission)
    \/ RevokeTablePermission(SessionUser, "orders", TablePermission)

SpecColumns == Init /\ [][NextColumns]_vars

\* the rewriter: a store holding user_1 with any list of records and
\* user_0 with none; clients parse texts, also the text TransformQuery
\* returned, and call TransformQuery on the tree they hold
InitRewrite ==
    /\ users = [u \in RewriteUsers |-> "test_token"]
    /\ \E list \in RewriteLists :
           permissions = [u \in RewriteUsers |->
                             IF u = UserNameOf(1) THEN list ELSE <<>>]
    /\ roles = [i \in {} |-> ""]
    /\ roleNames = [n \in {} |-> 0]
    /\ userRoles = [u \in {} |-> <<>>]
    /\ nextRoleID = 1
    /\ last = NoCall
    /\ txOpen = FALSE
    /\ calls = [c \in Callers |-> Idle]
    /\ parsed = NoStmt

NextRewrite ==
    \/ \E text \in RewriteTexts : ParseStatement(text)
    \/ /\ last.api = "TransformQuery"
       /\ last.code = "OK"
       /\ ParseStatement(last.engine)
    \/ \E id \in UserIDs : TransformQuery(id)

SpecRewrite == InitRewrite /\ [][NextRewrite]_vars

\* the session user is granted permissions on orders, the list is emptied
\* through the store, and statements are submitted at every entry point
NextFresh ==
    \/ GrantTablePermission(SessionUser, "orders", TablePermission)
    \/ GrantColumnPermission(SessionUser, "orders", "id", ColumnPermission)
    \/ \E c \in {Cond1, Cond2} :
           GrantRowPermission(SessionUser, "orders", c, RowPermission)
    \/ SetUserPermissions(SessionUser, <<>>)
    \/ \E q \in Statements : Query(q)
    \/ \E q \in Statements : Exec(q)
    \/ \E q \in Statements : QueryRow(q)
    \/ \E q \in Statements : Prepare(q)

SpecFresh == Init /\ [][NextFresh]_vars

\* clients of the manager: grants and revokes of row and table records for
\* the session user and for a name the store does not know, and calls of
\* GetRowPermissions with the empty name as well
CallerNames == Usernames \cup {""}

NextRows ==
    \/ \E u \in Usernames :
           GrantTablePermission(u, "orders", TablePermission)
    \/ \E u \in Usernames, t \in GrantTargets, c \in {Cond1, Cond2} :
           GrantRowPermission(u, t, c, RowPermission)
    \/ \E u \in Usernames, c \in {Cond1, Cond2} :
           RevokeRowPermission(u, "orders", c, RowPermission)
    \/ \E u \in CallerNames, t \in TableNames, s \in Scopes :
           GetRowPermissionsCall(u, t, s)

SpecRows == Init /\ [][NextRows]_vars

\* statements of every shape are submitted while table grants change
Shapes == {SelectStar, SelectJoin, UpdateStmt, DropStmt, ShowStmt}

NextShapes ==
    \/ \E t \in GrantTargets :
           GrantTablePermission(SessionUser, t, TablePermission)
    \/ \E t \in GrantTargets :
           RevokeTablePermission(SessionUser, t, TablePermission)
    \/ \E q \in Shapes : Query(q)
    \/ \E q \in Shapes : Exec(q)
    \/ \E q \in Shapes : QueryRow(q)
    \/ \E q \in Shapes : Prepare(q)

SpecShapes == Init /\ [][NextShapes]_vars

\* the validator: records carrying an action are added to the list of the
\* session user, and statements are validated for the session user, for a
\* name the store does not know and for the empty name
ActionPermission(type, table, column, action) ==
    [Permission(type, table, column, NoCondition) EXCEPT !.Action = action]

ValidateRecords ==
    {ActionPermission(TablePermission, "orders", "", Select),
     ActionPermission(TablePermission, "orders", "", Update),
     ActionPermission(TablePermission, "items", "", Select),
     ActionPermission(TablePermission, WildcardPermission, "", Delete),
     ActionPermission(ColumnPermission, "orders", "*", Select),
     ActionPermission(RowPermission, "users", "", Select)}

ValidateStatements ==
    {SelectStar, SelectColumn, SelectJoin, SelectNestedJoin, InsertStmt,
     UpdateStmt, DeleteStmt, DropStmt, ShowStmt}

NextValidate ==
    \/ \E p \in ValidateRecords : AddPermission(SessionUser, p)
    \/ GrantRowPermission(SessionUser, "orders", Cond1, RowPermission)
    \/ RevokeRowPermission(SessionUser, "orders", Cond1, RowPermission)
    \/ \E q \in ValidateStatements, u \in CallerNames :
           ValidatePermissions(q, u)

SpecValidate == Init /\ [][NextValidate]_vars

\* invocations of the entry points on statements of one and of two tables
\* while records of every scope are granted to the session user and row
\* records are revoked
OrderStatements == {SelectColumn, SelectTwoTables, UpdateStmt, DropStmt}

NextOrder ==
    \/ \E t \in TableNames :
           GrantTablePermission(SessionUser, t, TablePermission)
    \/ \E t \in TableNames :
           GrantColumnPermission(SessionUser, t, "id", ColumnPermission)
    \/ GrantRowPermission(SessionUser, "orders", Cond1, RowPermission)
    \/ RevokeRowPermission(SessionUser, "orders", Cond1, RowPermission)
    \/ \E q \in OrderStatements : Query(q)
    \/ \E q \in OrderStatements : Exec(q)
    \/ \E q \in OrderStatements : QueryRow(q)
    \/ \E q \in OrderStatements : Prepare(q)

SpecOrder == Init /\ [][NextOrder]_vars

\* clients of the manager: records of every scope are granted to and revoked
\* from the session user and a name the store does not know, and every
\* decision is asked for these names and the empty name
NextChecks ==
    \/ \E u \in Usernames :
           GrantTablePermission(u, "orders", TablePermission)
    \/ \E u \in Usernames :
           RevokeTablePermission(u, "orders", TablePermission)
    \/ \E u \in Usernames, c \in ColumnNames :
           GrantColumnPermission(u, "orders", c, ColumnPermission)
    \/ \E u \in Usernames, c \in ColumnNames :
           RevokeColumnPermission(u, "orders", c, ColumnPermission)
    \/ \E u \in Usernames :
           GrantRowPermission(u, "orders", Cond1, RowPermission)
    \/ \E u \in Usernames :
           RevokeRowPermission(u, "orders", Cond1, RowPermission)
    \/ \E u \in CallerNames, t \in TableNames, s \in Scopes :
           HasTablePermissionCall(u, t, s)
    \/ \E u \in CallerNames, t \in TableNames, c \in AllColumnNames,
          s \in Scopes :
           HasColumnPermissionCall(u, t, c, s)
    \/ \E u \in CallerNames, t \in TableNames, s \in Scopes :
           GetRowPermissionsCall(u, t, s)
    \/ \E u \in CallerNames, t \in TableNames : GetRowConditionCall(u, t)
    \/ \E u \in CallerNames, t \in TableNames, s \in Scopes :
           CheckQueryPermissionsCall(u, t, s)

SpecChecks == Init /\ [][NextChecks]_vars

\* two users of the store, the second added while the manager grants
\* records of every scope to both
NextGrants ==
    \/ AddUser(UnknownUser, SessionToken)
    \/ \E u \in Usernames :
           GrantTablePermission(u, "orders", TablePermission)
    \/ \E u \in Usernames :
           GrantColumnPermission(u, "orders", "id", ColumnPermission)
    \/ \E u \in Usernames :
           GrantRowPermission(u, "orders", Cond1, RowPermission)

SpecGrants == Init /\ [][NextGrants]_vars

\* the lists a store may hold when concurrent callers arrive
RaceLists ==
    UNION {[1..n -> RacePerms] : n \in 0..(MaxPerms - 1)}

\* concurrent callers revoke the table permission on orders and the row
\* permission on orders while others grant the row permission; nobody
\* grants the table permission again
InitRevokeRace ==
    /\ users = [u \in {SessionUser} |-> SessionToken]
    /\ \E list \in RaceLists :
           permissions = [u \in Usernames |->
                             IF u = SessionUser THEN list ELSE <<>>]
    /\ roles = [i \in {} |-> ""]
    /\ roleNames = [n \in {} |-> 0]
    /\ userRoles = [u \in {} |-> <<>>]
    /\ nextRoleID = 1
    /\ last = NoCall
    /\ txOpen = FALSE
    /\ calls = [c \in Callers |-> Idle]
    /\ parsed = NoStmt

NextRevokeRace ==
    \/ \E c \in Callers, u \in Usernames :
           GrantRead(c, u, Permission(RowPermission, "orders", "", Cond1))
    \/ \E c \in Callers : GrantAppend(c)
    \/ \E c \in Callers : GrantUpdate(c)
    \/ \E c \in Callers, u \in Usernames :
           RevokeRead(c, u, "orders", TablePermission)
    \/ \E c \in Callers : RevokeUpdate(c)
    \/ \E c \in Callers, u \in Usernames :
           RevokeRowRead(c, u, "orders", Cond1, RowPermission)
    \/ \E c \in Callers : RevokeRowMark(c)
    \/ \E c \in Callers : RevokeRowUpdate(c)

SpecRevokeRace == InitRevokeRace /\ [][NextRevokeRace]_vars

---------------------------------------------------------------------------
(* Properties                                                              *)

EntryPoints == {"Query", "QueryRow", "Exec", "Prepare"}

\* the list of the connection's user as the store holds it
SessionPerms == permissions[SessionUser]

\* the row-scope records that apply to a table, in list order
RowRecords(tableName) == Matching(SessionPerms, tableName, RowPermission)

\* the user holds a table-scope record for the table
HoldsTableGrant(tableName) ==
    \E i \in 1..Len(SessionPerms) :
        /\ SessionPerms[i].Type = TablePermission
        /\ SessionPerms[i].Table \in {tableName, WildcardPermission}

\* a filter that cannot be true of a row unless the condition is
RECURSIVE Requires(_, _)
Requires(where, condition) ==
    CASE where.node = "pred" -> where.condition = condition
      [] where.node = "and" -> \/ Requires(where.left, condition)
                               \/ Requires(where.right, condition)
      [] OTHER -> FALSE

\* C1: whenever the user's list holds row-scope records for a table and the
\* most recent of them is tombstoned, CheckQueryPermissions answers false
\* for that table, a table-scope grant notwithstanding.
TombstonedLatestDenies ==
    \A t \in TableNames :
        LET m == RowRecords(t)
        IN  (Len(m) > 0 /\ Revoked(m[Len(m)]))
                => ~CheckQueryPermissions(SessionUser, t, TablePermission).val

\* C2: a SELECT submitted to Query by a user holding a table-scope grant and
\* a granted row condition on its table reaches the engine with a filter
\* that requires the condition, never as the text that was submitted.
QueryInjectsRowCondition ==
    \A t \in TableNames :
        LET condition == GetRowCondition(SessionUser, t).val
        IN  (/\ last.api = "Query"
             /\ last.query.kind = "select"
             /\ t \in ReferencedTables(last.query)
             /\ HoldsTableGrant(t)
             /\ condition # NoCondition)
                => /\ last.engine # NoStmt
                   /\ last.engine # last.query
                   /\ Requires(last.engine.where, condition)

\* C3: once the row permission of a table has been revoked (its row-scope
\* records are all tombstoned), a statement on that table submitted to Query
\* or Exec ends in PERMISSION_DENIED and does not reach the engine, the
\* table-scope grant being still present.
RevokedRowDeniesStatement ==
    \A t \in TableNames :
        LET m == RowRecords(t)
        IN  (/\ last.api \in {"Query", "Exec"}
             /\ t \in ReferencedTables(last.query)
             /\ HoldsTableGrant(t)
             /\ Len(m) > 0
             /\ \A i \in 1..Len(m) : Revoked(m[i]))
                => /\ last.code = "PERMISSION_DENIED"
                   /\ last.engine = NoStmt

\* C4: a statement submitted to Query, QueryRow, Exec or Prepare reaches the
\* engine only if the user holds a table-scope record for every table it
\* references, both sides of a join and the target of DDL included.
EngineOnlyWithTableGrants ==
    (last.api \in EntryPoints /\ last.engine = last.query)
        => \A t \in ReferencedTables(last.query) : HoldsTableGrant(t)

\* C5: a statement executed on a transaction obtained from Begin reaches the
\* engine only if the user holds a table-scope record for every table it
\* references, as for Exec.
TransactionChecksTableGrants ==
    (last.api = "Tx.Exec" /\ last.engine = last.query)
        => \A t \in ReferencedTables(last.query) : HoldsTableGrant(t)

\* C6: HasTablePermission(u, t, s) is true exactly when the list holds a
\* record that is not tombstoned, has scope s and names t or the wildcard.
HasTablePermissionIffLiveRecord ==
    \A t \in TableNames, s \in Scopes :
        HasTablePermission(SessionUser, t, s).val
            <=> \E i \in 1..Len(SessionPerms) :
                    /\ ~Revoked(SessionPerms[i])
                    /\ SessionPerms[i].Type = s
                    /\ SessionPerms[i].Table \in {t, WildcardPermission}

\* C7: when a row condition c1 of a table has been granted and revoked, a
\* grant of a different condition c2 leaves the row decision granted with
\* c2: the first rule of GetRowPermissions is granted and GetRowCondition
\* is c2.
ReGrantAfterRevokeIsGranted ==
    [][\A t \in RowTargets, c1 \in Conditions, c2 \in Conditions :
          (/\ c1 # c2 /\ c1 # NoCondition /\ c2 # NoCondition
           /\ \E i \in 1..Len(SessionPerms) :
                  SessionPerms[i] = Permission(RowPermission, t, "",
                                        RevokedPermissionPrefix \o c1)
           /\ permissions' = [permissions EXCEPT ![SessionUser] =
                  Append(SessionPerms, Permission(RowPermission, t, "", c2))])
             => /\ GetRowPermissions(SessionUser, t, RowPermission)'.val[1].Granted
                /\ GetRowCondition(SessionUser, t)'.val = c2]_vars

\* C8: when the list holds several row-scope records for a table, none
\* tombstoned and each with a condition, the effective row condition is
\* that of the most recently appended one.
LatestRowConditionWins ==
    \A t \in TableNames :
        LET m == RowRecords(t)
        IN  (/\ Len(m) >= 2
             /\ \A i \in 1..Len(m) :
                    ~Revoked(m[i]) /\ m[i].Condition # NoCondition)
                => GetRowCondition(SessionUser, t).val = m[Len(m)].Condition

\* C9: the rule GetRowPermissions reports for a row-scope record without a
\* condition is never granted.
EmptyConditionNeverGranted ==
    \A t \in TableNames :
        LET m == RowRecords(t)
            rules == GetRowPermissions(SessionUser, t, RowPermission).val
        IN  \A i \in 1..Len(m) :
                m[i].Condition = NoCondition => ~rules[i].Granted

\* the columns a statement names: projected columns, INSERT columns, SET
\* targets
ReferencedColumns(query) ==
    {query.sel[i].name : i \in {j \in 1..Len(query.sel) :
                                    query.sel[j].node = "col"}}
    \cup {query.cols[i] : i \in 1..Len(query.cols)}

\* the user holds a column-scope record for the table
HoldsColumnGrant(tableName) ==
    \E i \in 1..Len(SessionPerms) :
        /\ SessionPerms[i].Type = ColumnPermission
        /\ SessionPerms[i].Table \in {tableName, WildcardPermission}

\* C10: at every entry point, a statement whose tables the user holds
\* table-scope records for (and column-scope records, where it names
\* columns), none of them carrying a row-scope record, is authorized and
\* reaches the engine as submitted.
NoRowRecordNoDenial ==
    (/\ last.api \in EntryPoints
     /\ ReferencedTables(last.query) # {}
     /\ \A t \in ReferencedTables(last.query) :
            /\ HoldsTableGrant(t)
            /\ ReferencedColumns(last.query) # {} => HoldsColumnGrant(t)
            /\ Len(RowRecords(t)) = 0)
        => /\ last.code = "OK"
           /\ last.engine = last.query


\* C11: after CreateRole(r) returned id and AssignRoleToUser(u, r) succeeded
\* (u holds the membership record of r), a successful grant of a table
\* permission to the role id leaves HasTablePermission(u, T, s) true
RoleGrantReachesHolders ==
    [][\A id \in DOMAIN roles, u \in DOMAIN users :
           (/\ SecureSQLiteGrantTablePermission(id, "orders", TablePermission)
            /\ last'.code = "OK"
            /\ UserHasRole(u, roles[id]).val)
           => (HasTablePermission(u, "orders", TablePermission).val)']_vars

\* C12: for a user the store holds, whatever its token, AssignRoleToUser
\* succeeds and UserHasRole is true afterwards; after a successful
\* RemoveRoleFromUser, UserHasRole is false
AssignThenRemoveRole ==
    [][\A u \in Usernames, r \in RoleNames :
           /\ (AssignRoleToUser(u, r) /\ u \in DOMAIN users)
              => (last'.code = "OK" /\ (UserHasRole(u, r).val)')
           /\ (RemoveRoleFromUser(u, r) /\ last'.code = "OK")
              => ~(UserHasRole(u, r).val)']_vars

\* C13: once RevokeTablePermission(u, T, s) has returned successfully,
\* HasTablePermission(u, T, s) is false, whatever the list was before
RevokeTableThenNoPermission ==
    [][\A u \in Usernames, t \in GrantTargets :
           (RevokeTablePermission(u, t, TablePermission) /\ last'.code = "OK")
           => ~(HasTablePermission(u, t, TablePermission).val)']_vars

\* C14: once RevokeColumnPermission(u, T, c, s) has returned successfully,
\* HasColumnPermission(u, T, c, s) is false, whatever the user holds on
\* other columns of T
RevokeColumnThenNoPermission ==
    [][\A t \in GrantTargets, c \in AllColumnNames :
           (/\ RevokeColumnPermission(SessionUser, t, c, ColumnPermission)
            /\ last'.code = "OK")
           => ~(HasColumnPermission(SessionUser, t, c, ColumnPermission).val)']_vars

\* the callers whose grant returned success
Granted(c) == calls[c].pc = "done" /\ calls[c].code = "OK"

\* two grants to the same user that were given the same list by the store
Raced(c, d) ==
    /\ c # d
    /\ Granted(c) /\ Granted(d)
    /\ calls[c].username = calls[d].username
    /\ calls[c].read = calls[d].read

RECURSIVE Atoms(_)
Atoms(expr) ==
    CASE expr.node = "none" -> {}
      [] expr.node = "pred" -> {expr.condition}
      [] OTHER -> Atoms(expr.left) \cup Atoms(expr.right)

\* the value of a filter on a row, a row being the set of the predicates
\* it satisfies; a statement without a filter takes every row
RECURSIVE Truth(_, _)
Truth(expr, row) ==
    CASE expr.node = "none" -> TRUE
      [] expr.node = "pred" -> expr.condition \in row
      [] expr.node = "and" -> Truth(expr.left, row) /\ Truth(expr.right, row)
      [] expr.node = "or" -> Truth(expr.left, row) \/ Truth(expr.right, row)

\* every table of a FROM clause in the order written, joins of joins included
RECURSIVE TablesOf(_)
TablesOf(expr) ==
    IF expr.node = "aliased" THEN <<expr.name>>
    ELSE TablesOf(expr.left) \o TablesOf(expr.right)

RECURSIVE FromTables(_)
FromTables(from) ==
    IF from = <<>> THEN <<>>
    ELSE TablesOf(Head(from)) \o FromTables(Tail(from))

\* the last call was a TransformQuery that returned a text
Transformed == last.api = "TransformQuery" /\ last.code = "OK"

\* the conditions the rewriter has for the tables of a statement, in the
\* order of the tables
ConditionsFor(statement, userID, tables) ==
    SelectSeq([i \in 1..Len(tables) |->
                  getRowLevelSecurityConditions(statement, tables[i], userID).val],
              LAMBDA c : c # <<>>)

\* the conjunction of expressions, associated to the left
RECURSIVE Conjunction(_)
Conjunction(exprs) ==
    IF Len(exprs) = 1 THEN exprs[1]
    ELSE AndExpr(Conjunction(SubSeq(exprs, 1, Len(exprs) - 1)),
                 exprs[Len(exprs)])

\* C16: when the statement has a filter P and the security conditions are
\* S1..Sn, the filter of the returned text, parsed again, is equivalent to
\* (P) AND (S1 AND ... AND Sn): it holds on a row exactly if P and every Si
\* hold on it
FilterIsConjunction ==
    LET given == last.query.stmt
        conds == ConditionsFor(given, last.query.userID, FromTables(given.from))
        out == SqlparserParse(last.engine).val.where
        atoms == Atoms(out) \cup Atoms(given.where)
                 \cup UNION {Atoms(ParseExpr(conds[i])) : i \in 1..Len(conds)}
    IN  (/\ Transformed
         /\ given.kind \in {"select", "update", "delete"}
         /\ given.where # NoWhere
         /\ conds # <<>>)
        => \A row \in SUBSET atoms :
               Truth(out, row) <=>
                   /\ Truth(given.where, row)
                   /\ \A i \in 1..Len(conds) : Truth(ParseExpr(conds[i]), row)

\* C17: when a SELECT has no filter, the filter of the returned text is
\* exactly the conjunction of the row conditions of the tables of the FROM
\* clause that have one, in the order of the FROM clause
ConjunctionInFromOrder ==
    LET given == last.query.stmt
        conds == ConditionsFor(given, last.query.userID, FromTables(given.from))
        out == SqlparserParse(last.engine).val.where
    IN  (Transformed /\ given.kind = "select" /\ given.where = NoWhere)
        => out = IF conds = <<>> THEN NoWhere
                 ELSE Conjunction([i \in 1..Len(conds) |-> ParseExpr(conds[i])])

\* C18: with unchanged permissions, TransformQuery applied again, to the
\* tree the first call left behind or to the parsed text it returned,
\* returns the same text as the first call
RewriteIsIdempotent ==
    Transformed =>
        /\ TransformQueryOutcome(parsed, last.query.userID).text = last.engine
        /\ TransformQueryOutcome(SqlparserParse(last.engine).val,
                                 last.query.userID).text = last.engine

\* the condition with every reference to the identity column that stands
\* alone (not behind a qualifier, not the tail of a longer identifier)
\* qualified by the alias
RECURSIVE QualifiedFrom(_, _, _)
QualifiedFrom(c, alias, i) ==
    IF i > Len(c) THEN <<>>
    ELSE (IF c[i] = IdentityColumn /\ (i = 1 \/ c[i - 1] \notin {".", "super_"})
          THEN <<alias, ".", IdentityColumn>>
          ELSE <<c[i]>>)
         \o QualifiedFrom(c, alias, i + 1)

\* the stored condition of the first row-scope record of the user on a table
StoredCondition(userID, table) ==
    LET rows == SelectSeq(permissions[UserNameOf(userID)],
                          LAMBDA perm : /\ perm.Type = RowPermission
                                        /\ perm.Table = table)
    IN  IF rows = <<>> THEN <<>> ELSE rows[1].Condition

\* C19: for a SELECT from one table that carries a row condition, the
\* injected condition is the stored one when the table has no alias, and
\* under an alias a the stored one with the identity column qualified as
\* a.<column> exactly once
AliasQualifiesOnce ==
    LET given == last.query.stmt
        entry == given.from[1]
        stored == StoredCondition(last.query.userID, entry.name)
    IN  (/\ Transformed
         /\ given.kind = "select" /\ given.where = NoWhere
         /\ Len(given.from) = 1 /\ entry.node = "aliased"
         /\ last.query.userID = 1
         /\ stored # <<>>)
        => last.engine.where =
               IF entry.as = "" THEN stored
               ELSE QualifiedFrom(stored, entry.as, 1)

\* the user of a call exists and holds no row-scope record on a table the
\* statement references
NoRowRecordFor(statement, userID) ==
    /\ UserNameOf(userID) \in DOMAIN users
    /\ \A i \in 1..Len(permissions[UserNameOf(userID)]) :
           LET perm == permissions[UserNameOf(userID)][i]
           IN  perm.Type = RowPermission =>
                   \A j \in 1..Len(FromTables(statement.from)) :
                       FromTables(statement.from)[j] # perm.Table

\* the call returned the statement it was given, rendered, and left the
\* tree as it was
ReturnedUnchanged ==
    /\ last.code = "OK"
    /\ last.engine = String(last.query.stmt)
    /\ parsed = last.query.stmt

DecisionsReflectCurrentList ==
    [][\A q \in Statements :
           (/\ last.api = "UpdateUserPermissions"
            /\ SessionPerms = <<>>
            /\ ReferencedTables(q) # {}
            /\ last'.api \in EntryPoints
            /\ last'.query = q)
               => /\ last'.code # "OK"
                  /\ last'.engine # q]_vars


\* the positions of the records of a list that have the scope and whose
\* table is the table or the wildcard
MatchingPositions(perms, tableName, permission) ==
    {i \in 1..Len(perms) :
         /\ perms[i].Type = permission
         /\ perms[i].Table \in {tableName, WildcardPermission}}

\* the k-th smallest member of a set of positions
Nth(positions, k) ==
    CHOOSE i \in positions : Cardinality({j \in positions : j <= i}) = k

RulesForLiveAndTombstoned ==
    /\ last.api = "GetRowPermissions"
    /\ last.code = "OK"
    /\ last.engine = <<[Granted |-> FALSE], [Granted |-> TRUE]>>

Unrecognized(query) ==
    \/ query.kind \notin {"select", "insert", "update", "delete", "ddl"}
    \/ \E i \in 1..Len(query.from) : query.from[i].node # "aliased"

\* C23: a statement of an unrecognized shape ends in an unsupported or
\* parse error at every entry point; it is not given to the engine.
UnrecognizedShapeRefused ==
    (last.api \in EntryPoints /\ Unrecognized(last.query))
        => /\ last.code \in {"UNSUPPORTED_QUERY", "PARSE_ERROR"}
           /\ last.engine # last.query

\* the action the type of a statement requires
RequiredAction(stmt) ==
    CASE stmt.kind = "select" -> Select
      [] stmt.kind = "insert" -> Insert
      [] stmt.kind = "update" -> Update
      [] stmt.kind = "delete" -> Delete
      [] stmt.verb = "CREATE" -> Create
      [] stmt.verb = "ALTER" -> Alter
      [] stmt.verb = "DROP" -> Drop

\* every table a statement names: the tables of its FROM clause, joins of
\* joins included, and the target of INSERT and DDL
AllTables(stmt) ==
    {FromTables(stmt.from)[i] : i \in 1..Len(FromTables(stmt.from))}
    \cup (IF stmt.table = "" THEN {} ELSE {stmt.table})

\* the list of the user holds a record of the action for the table or the
\* wildcard
HoldsActionRecord(username, tableName, action) ==
    \E i \in 1..Len(permissions[username]) :
        /\ permissions[username][i].Action = action
        /\ permissions[username][i].Table \in {tableName, WildcardPermission}

\* C24: ValidatePermissions returns nil only when, for every table the
\* statement names, the user's list holds a record of the action the
\* statement type requires for that table or the wildcard.
ValidatedOnlyWithActionRecords ==
    (last.api = "ValidatePermissions" /\ last.code = "OK")
        => \A t \in AllTables(last.query.stmt) :
               HoldsActionRecord(last.query.username, t,
                                 RequiredAction(last.query.stmt))


\* the place of a stage in the order table, column, row, engine
StageRank(stage) ==
    CASE stage = "table" -> 1
      [] stage = "column" -> 2
      [] stage = "row" -> 3
      [] OTHER -> 4

\* C25: in one invocation of Query, Exec or Prepare nothing follows a check
\* that did not pass (no further check and no call of the engine), table
\* checks come before column checks and these before row checks, and the
\* engine is called exactly when it is the last step, after a check of
\* every table the invocation collected at the table and the row stage.
DeniedIsTerminalAndChecksOrdered ==
    last.api \in {"Query", "Exec", "Prepare"} =>
        LET steps == last.checks
            tables == extractTables(last.query, DMLKinds)
            called == \E i \in 1..Len(steps) : steps[i] = EngineCall
        IN  /\ \A i \in 1..Len(steps) :
                   steps[i].verdict # "PASS" => i = Len(steps)
            /\ \A i, j \in 1..Len(steps) :
                   i < j => StageRank(steps[i].stage) <= StageRank(steps[j].stage)
            /\ called <=> (last.code = "OK" /\ last.engine = last.query)
            /\ called =>
                   /\ steps[Len(steps)] = EngineCall
                   /\ \A k \in 1..Len(tables) :
                          /\ \E i \in 1..Len(steps) :
                                 /\ steps[i].stage = "table"
                                 /\ steps[i].table = tables[k]
                          /\ \E i \in 1..Len(steps) :
                                 /\ steps[i].stage = "row"
                                 /\ steps[i].table = tables[k]
            /\ ~called => (last.code # "OK" /\ last.engine = NoStmt)

\* C25 witness: Prepare of a statement on two tables with a column was
\* refused at the table check of the second table, after the table check
\* of the first had passed, and made no other step
RefusedAtSecondTableCheck ==
    /\ last.api = "Prepare"
    /\ last.query = SelectTwoTables
    /\ last.code = "PERMISSION_DENIED"
    /\ Len(last.checks) = 2
    /\ last.checks[1] = Check("table", "orders", "", "PASS")
    /\ last.checks[2] = Check("table", "users", "", "PERMISSION_DENIED")

\* C26: a successful RemoveRoleFromUser(u, r) retracts no permission: the
\* answers of HasTablePermission, HasColumnPermission and
\* CheckQueryPermissions for u are, for every table, the same before and
\* after the call.
RemoveRoleKeepsPermissions ==
    [][\A u \in Usernames, r \in RoleNames :
           (RemoveRoleFromUser(u, r) /\ last'.code = "OK")
               => \A t \in TableNames :
                      /\ HasTablePermission(u, t, TablePermission)'
                             = HasTablePermission(u, t, TablePermission)
                      /\ HasColumnPermission(u, t, "id", ColumnPermission)'
                             = HasColumnPermission(u, t, "id", ColumnPermission)
                      /\ CheckQueryPermissions(u, t, TablePermission)'
                             = CheckQueryPermissions(u, t, TablePermission)]_vars

Appended(username, record) ==
    /\ Len(permissions'[username]) = Len(permissions[username]) + 1
    /\ \A i \in 1..Len(permissions[username]) :
           permissions'[username][i] = permissions[username][i]
    /\ permissions'[username][Len(permissions[username]) + 1] = record
    /\ \A other \in Usernames \ {username} :
           permissions'[other] = permissions[other]

\* C28: a successful grant of a table, column or row permission leaves the
\* user's list as the previous list followed by the one new record, the
\* earlier records in content and order, also when the list already holds
\* an identical record, and leaves the lists of the other users unchanged.
GrantAppendsOneRecord ==
    [][\A u \in Usernames :
           /\ (/\ GrantTablePermission(u, "orders", TablePermission)
               /\ last'.code = "OK")
                  => Appended(u, [Type |-> TablePermission, Table |-> "orders",
                                  Column |-> "", Condition |-> NoCondition,
                                  Action |-> Select])
           /\ (/\ GrantColumnPermission(u, "orders", "id", ColumnPermission)
               /\ last'.code = "OK")
                  => Appended(u, [Type |-> ColumnPermission, Table |-> "orders",
                                  Column |-> "id", Condition |-> NoCondition,
                                  Action |-> Select])
           /\ (/\ GrantRowPermission(u, "orders", Cond1, RowPermission)
               /\ last'.code = "OK")
                  => Appended(u, [Type |-> RowPermission, Table |-> "orders",
                                  Column |-> "", Condition |-> Cond1,
                                  Action |-> Select])]_vars

\* C28 witness: a grant has just succeeded for a user whose list ends in
\* two identical records, while another user holds records too
GrantedIdenticalRecordTwice ==
    /\ last.api \in {"GrantTablePermission", "GrantColumnPermission",
                     "GrantRowPermission"}
    /\ last.code = "OK"
    /\ \E u \in Usernames :
           LET n == Len(permissions[u])
           IN  /\ n >= 2
               /\ permissions[u][n] = permissions[u][n - 1]
               /\ \E other \in Usernames \ {u} : Len(permissions[other]) > 0

\* C29: RevokeRowPermission(u, T, c, s) marks in place: the list keeps its
\* length, the first record with scope s, table T and condition c gets the
\* condition "REVOKED:" + c and every other record stays as it is; when no
\* record has that scope, table and condition the call succeeds and leaves
\* the list as it is, as a second revoke of the same condition does.
RevokeRowTombstonesInPlace ==
    [][\A u \in Usernames, c \in {Cond1, Cond2} :
           (/\ RevokeRowPermission(u, "orders", c, RowPermission)
            /\ u \in DOMAIN users)
               => LET old == permissions[u]
                      new == permissions'[u]
                      hits == {i \in 1..Len(old) :
                                   /\ old[i].Type = RowPermission
                                   /\ old[i].Table = "orders"
                                   /\ old[i].Condition = c}
                  IN  /\ last'.code = "OK"
                      /\ Len(new) = Len(old)
                      /\ \A other \in Usernames \ {u} :
                             permissions'[other] = permissions[other]
                      /\ hits = {} => new = old
                      /\ hits # {} =>
                             \A i \in 1..Len(old) :
                                 IF i = Nth(hits, 1)
                                 THEN /\ new[i].Condition = <<"REVOKED:">> \o c
                                      /\ new[i].Type = old[i].Type
                                      /\ new[i].Table = old[i].Table
                                      /\ new[i].Column = old[i].Column
                                      /\ new[i].Action = old[i].Action
                                 ELSE new[i] = old[i]]_vars

\* C29 as stated, with the repeated revoke: a revoke that follows a
\* successful revoke of the same condition for the same user and table
\* changes nothing.
RepeatedRowRevokeChangesNothing ==
    [][\A u \in Usernames, c \in {Cond1, Cond2} :
           (/\ RevokeRowPermission(u, "orders", c, RowPermission)
            /\ last.api = "RevokeRowPermission"
            /\ last.code = "OK"
            /\ last.query = RowCall(u, "orders", c, RowPermission))
               => permissions' = permissions]_vars

\* C29 witness: a revoke has just marked the first of two identical row
\* records that follow another record, and left the second as it was
FirstOfTwoTombstoned ==
    /\ last.api = "RevokeRowPermission"
    /\ last.code = "OK"
    /\ Len(SessionPerms) = 3
    /\ SessionPerms[1].Type = TablePermission
    /\ SessionPerms[2].Condition = <<"REVOKED:">> \o Cond1
    /\ SessionPerms[3].Condition = Cond1
    /\ SessionPerms[3].Table = SessionPerms[2].Table

\* the lists of all users stay as they are in a step
ListsUnchanged == permissions' = permissions

\* C30: a grant or revoke for a name whose list the store cannot read
\* returns the store's error and writes nothing, every list staying as it
\* is; a check for such a name returns the error; a check that reads a list
\* without a matching record (of the scope asked for; of the table scope
\* for CheckQueryPermissions) returns false, the single not-granted rule or
\* the empty condition, and no error.
StoreErrorsPropagateMissesAreFalse ==
    [][/\ \A u \in Usernames :
              (/\ u \notin DOMAIN users
               /\ \/ GrantTablePermission(u, "orders", TablePermission)
                  \/ RevokeTablePermission(u, "orders", TablePermission)
                  \/ \E c \in ColumnNames :
                         \/ GrantColumnPermission(u, "orders", c,
                                                  ColumnPermission)
                         \/ RevokeColumnPermission(u, "orders", c,
                                                   ColumnPermission)
                  \/ GrantRowPermission(u, "orders", Cond1, RowPermission)
                  \/ RevokeRowPermission(u, "orders", Cond1, RowPermission))
                  => (last'.code = "STORE_ERROR" /\ ListsUnchanged)
       /\ (last'.api \in {"HasTablePermission", "HasColumnPermission",
                          "GetRowPermissions", "GetRowCondition",
                          "CheckQueryPermissions"} /\ last' # last)
              => LET u == last'.query.username
                     hits == IF u \in DOMAIN permissions
                             THEN MatchingPositions(
                                      permissions[u], last'.query.table,
                                      IF last'.api = "CheckQueryPermissions"
                                      THEN TablePermission
                                      ELSE last'.query.permission)
                             ELSE {}
                     miss == CASE last'.api = "GetRowPermissions" ->
                                      <<[Granted |-> FALSE]>>
                               [] last'.api = "GetRowCondition" -> NoCondition
                               [] OTHER -> FALSE
                 IN  /\ ListsUnchanged
                     /\ u \notin DOMAIN users => last'.code = "ERROR"
                     /\ (u \in DOMAIN users /\ hits = {})
                            => (last'.code = "OK" /\ last'.engine = miss)]_vars

\* C30 witness: a grant or revoke for a name the store does not know has
\* returned the store's error, the session user holding records and the
\* list of that name being empty
GrantFailedOnUnknownName ==
    /\ last.api \in {"GrantTablePermission", "GrantColumnPermission",
                     "GrantRowPermission", "RevokeTablePermission",
                     "RevokeColumnPermission", "RevokeRowPermission"}
    /\ last.code = "STORE_ERROR"
    /\ Len(SessionPerms) > 0
    /\ permissions[UnknownUser] = <<>>


\* C31: the condition TransformQuery injects for a table that stands without
\* an alias is GetRowCondition(user, table): after a call on a SELECT from
\* one such table that carried no filter, for a user whose list the store
\* reads, the call has succeeded and the filter of the tree is the parsed
\* condition of the Decision Engine, or absent when that condition is empty
\* (a tombstoned record contributes none)
RewriterUsesDecisionEngineCondition ==
    (/\ last.api = "TransformQuery"
     /\ last.query.stmt # NoStmt
     /\ last.query.userID > 0
     /\ last.query.stmt.kind = "select"
     /\ Len(last.query.stmt.from) = 1
     /\ last.query.stmt.from[1].node = "aliased"
     /\ last.query.stmt.from[1].as = ""
     /\ last.query.stmt.where = NoWhere)
        => LET g == GetRowCondition(UserNameOf(last.query.userID),
                                    last.query.stmt.from[1].name)
           IN  (~g.err /\ (g.val = NoCondition \/ Parses(g.val)))
                   => /\ last.code = "OK"
                      /\ parsed.where = IF g.val = NoCondition THEN NoWhere
                                        ELSE ParseExpr(g.val)


\* C32: after a successful DeleteRole(r) the role does not exist and no user
\* has it: RoleExists(r) is false and UserHasRole(u, r) is false for every
\* user, also one who received r through AssignRoleToUser
DeletedRoleLeavesEveryUser ==
    (last.api = "DeleteRole" /\ last.code = "OK")
        => /\ ~RoleExists(last.query.role)
           /\ \A u \in DOMAIN users : ~UserHasRole(u, last.query.role).val


\* C33: AssignRoleToUser(u, r) and RemoveRoleFromUser(u, r) for a name that
\* was never added to the store end with an error and leave the store as it
\* was: no list is written for the unknown name
UnknownUserRoleOpsRefused ==
    [][\A u \in Usernames, r \in RoleNames :
          (/\ u \notin DOMAIN users
           /\ AssignRoleToUser(u, r) \/ RemoveRoleFromUser(u, r))
              => /\ last'.code # "OK"
                 /\ permissions' = permissions]_vars


\* C34: AssignRoleToUser(u, r) only adds membership: every record of the
\* user's list before a successful call is in the list afterwards, and no
\* answer of HasTablePermission or CheckQueryPermissions for the user turns
\* from true to false
AssignRoleKeepsRecords ==
    [][\A u \in Usernames, r \in RoleNames :
          (AssignRoleToUser(u, r) /\ last'.code = "OK")
              => /\ \A i \in 1..Len(permissions[u]) :
                        \E j \in 1..Len(permissions'[u]) :
                            permissions'[u][j] = permissions[u][i]
                 /\ \A t \in TableNames :
                        /\ HasTablePermission(u, t, TablePermission).val
                               => HasTablePermission(u, t, TablePermission).val'
                        /\ CheckQueryPermissions(u, t, TablePermission).val
                               => CheckQueryPermissions(u, t, TablePermission).val']_vars


\* C35: role membership changes only through role operations: a
\* GrantTablePermission or RevokeTablePermission on a table leaves
\* UserHasRole(u, r) as it was for every user and every role name, also when
\* the table is named like the role
TableGrantsLeaveMembership ==
    [][\A u \in Usernames, t \in TableNames :
          (\/ GrantTablePermission(u, t, TablePermission)
           \/ RevokeTablePermission(u, t, TablePermission))
              => \A v \in Usernames, r \in RoleNames :
                     UserHasRole(v, r)' = UserHasRole(v, r)]_vars


\* C36: a revoke is durable under concurrency: once a successful
\* RevokeTablePermission(u, T, s) and every concurrent grant of a different
\* permission to u have returned, the list of u holds no record of scope s
\* on table T (nobody grants that record again)
RevokeIsDurable ==
    \A c \in Callers :
        (/\ calls[c].pc = "revoked"
         /\ calls[c].code = "OK"
         /\ calls[c].newPerm.Type = TablePermission
         /\ \A d \in Callers : calls[d].pc \in {"idle", "done", "revoked"})
            => \A i \in 1..Len(permissions[calls[c].username]) :
                   ~(/\ permissions[calls[c].username][i].Type
                            = calls[c].newPerm.Type
                     /\ permissions[calls[c].username][i].Table
                            = calls[c].newPerm.Table)


\* C37: the list the store holds for a user changes only inside
\* UpdateUserPermissions: a step that changes a list is the replace of a
\* grant or of a revoke, so nothing between a revoke's read and its replace
\* shows a tombstone to a reader, and the append of a grant alters no list
StoreChangesOnlyInUpdate ==
    [][permissions' # permissions
          => \E c \in Callers :
                 \/ GrantUpdate(c)
                 \/ RevokeUpdate(c)
                 \/ RevokeRowUpdate(c)]_vars


\* C38: a tombstoned row-scope record grants nothing through the
\* action-based check: when every record of the session user's list that
\* matches table T and action A is a row-scope record whose condition
\* starts with "REVOKED:", and there is one, CheckPermission(u, T, A) is
\* false and ValidatePermissions has not accepted a statement of action A
\* on T
TombstoneGrantsNoAction ==
    \A t \in {"orders", "users", "items"}, a \in {Select, Insert, Update, Delete} :
        LET m == {i \in 1..Len(SessionPerms) :
                     /\ SessionPerms[i].Action = a
                     /\ SessionPerms[i].Table \in {t, WildcardPermission}}
        IN  (/\ m # {}
             /\ \A i \in m : /\ SessionPerms[i].Type = RowPermission
                             /\ Revoked(SessionPerms[i]))
                => /\ ~CheckPermission(SessionUser, t, a).val
                   /\ ~(/\ last.api = "ValidatePermissions"
                        /\ last.code = "OK"
                        /\ last.query.username = SessionUser
                        /\ t \in AllTables(last.query.stmt)
                        /\ RequiredAction(last.query.stmt) = a)

=============================================================================
